---- MODULE Spec2Model ----
(***************************************************************************)
(* A model of the storage / sync coordination layer of the flashcard       *)
(* store (CardStore): the live-sync lifecycle of setSyncServer, the change *)
(* notifier built on the database's change feed, and the split Card /      *)
(* Progress entity persisted as two documents.                             *)
(***************************************************************************)
EXTENDS Integers, Sequences, FiniteSets, TLC

\* ---------------------------------------------------------------- bounds
MaxCalls == 3       \* setSyncServer invocations in one behaviour of SpecSync3
MaxOverlap == 2     \* setSyncServer invocations in one behaviour of SpecSync
MaxProgressCalls == 1   \* setSyncServer invocations in one behaviour of SpecProgress
MaxSeq == 2         \* largest update_seq / last_seq reported by a database
MaxIds == 2         \* card ids generateCardId can return
MaxOps == 3         \* putCard / deleteCard invocations in one behaviour
MaxGenerated == 3   \* generateCardId calls in one behaviour
MaxEntities == 2    \* cards created in one behaviour of the value specifications
MaxLevel == 1       \* progress levels 0..MaxLevel
MaxValued == 1      \* cards created in one behaviour of SpecValues
MaxTimeCalls == 3   \* setReviewTime invocations in one behaviour of SpecReviewTime
MaxReviewIds == 2   \* identifiers of review documents
MaxRevs == 3        \* writes of one review document that are not deletions
MaxCompleted == 2   \* the completed count of a review
MaxConflicts == 2   \* conflicting live revisions one document carries
MaxStamp == 3       \* created and modified times of a note
MaxTicks == 2       \* clock ticks while cards are updated field by field

VARIABLES
  initDone,     \* whether the promise this.initDone has resolved
  calls,        \* one record per setSyncServer invocation (its locals and position)
  remoteDb,     \* this.remoteDb
  remoteSync,   \* this.remoteSync: the call whose session it holds, 0 = undefined
  sessions,     \* the sessions db.sync has returned, indexed by the starting call
  immediates,   \* tasks queued with setImmediate
  lastCb,       \* history: the callback the last step handed to the caller
  lastArg,      \* history: the syncServer argument of the call the last step made
  errCount,     \* history: per call, how often (up to 2) a task queued by
                \* reportErrorAsync has invoked its onError
  cleared       \* history: an empty-target call has returned and no call
                \* with a non-empty target has been made after it

syncVars == <<initDone, calls, remoteDb, remoteSync, sessions, immediates, lastCb,
              lastArg, errCount, cleared>>

VARIABLES
  docs,           \* this.db: docs[kind][id] is the winning revision of a document
  ops,            \* one record per putCard / deleteCard invocation
  changesEmitter, \* whether this.changesEmitter exists (the feed is listened to)
  feed,           \* changes the database has yet to hand to the 'change' listener
  handlers,       \* 'change' listener invocations suspended on their db.get
  returnedCards,  \* the map returnedCards of the changes getter
  emitted,        \* history: 'card' events emitted since the last invocation began
  deletedEmitted  \* history: those of them that have deleted set

storeVars == <<docs, ops, changesEmitter, feed, handlers, returnedCards, emitted,
               deletedEmitted>>

VARIABLES
  prevTimeStamp,  \* the module variable prevTimeStamp, as a base-36 numeral
  issued,         \* history: the ids generateCardId has returned, in order
  inRange,        \* history: every timestamp used so far has 7 or 8 digits
  bumped          \* history: a call found the clock at or behind prevTimeStamp

idVars == <<prevTimeStamp, issued, inRange, bumped>>

VARIABLES
  records,        \* n-th created card -> its card and progress records
  result,         \* history: what the last awaited call was given and returned
  reviewTime      \* the field reviewTime, in days

valueVars == <<records, result, reviewTime>>

VARIABLES
  viewTime,       \* the review time in the map function of _design/overdueness
  timeCalls       \* setReviewTime invocation -> its position and locals

viewVars == <<viewTime, timeCalls>>

VARIABLES
  reviewDocs,     \* review id -> the review document: winning and conflicting revisions
  deletion,       \* the deleteReview invocation: its position and locals
  reviewResult,   \* what the review call that has just returned returned, or
                  \* the 'review' event the listener has just emitted
  noteDoc         \* a note document: winning and conflicting revisions

reviewVars == <<reviewDocs, deletion, reviewResult, noteDoc>>

VARIABLES
  replica         \* the ids of the local and the remote documents, and the
                  \* ids the push and the pull of the sync session have written

VARIABLES
  fieldDocs,      \* one entity's Card and Progress documents, field by field,
                  \* and the clock
  fieldOps        \* putCard update invocation -> its position and locals

fieldVars == <<fieldDocs, fieldOps>>

VARIABLES
  reviewPut       \* the putReview invocation run step by step: its position
                  \* and locals

vars == <<syncVars, storeVars, idVars, valueVars, viewVars, reviewVars, replica, fieldVars, reviewPut>>

\* What the actions of each part leave alone.
nonSyncVars == <<storeVars, idVars, valueVars, viewVars, reviewVars, replica, fieldVars, reviewPut>>
nonStoreVars == <<syncVars, idVars, valueVars, viewVars, reviewVars, replica, fieldVars, reviewPut>>
nonIdVars == <<syncVars, storeVars, valueVars, viewVars, reviewVars, replica, fieldVars, reviewPut>>
nonValueVars == <<syncVars, storeVars, viewVars, reviewVars, replica, fieldVars, reviewPut>>
nonViewVars == <<syncVars, storeVars, idVars, reviewVars, replica, fieldVars, reviewPut>>
nonReplicaVars == <<syncVars, storeVars, idVars, valueVars, viewVars, reviewVars, fieldVars, reviewPut>>
nonFieldVars == <<syncVars, storeVars, idVars, valueVars, viewVars, reviewVars, replica, reviewPut>>
nonReviewVars == <<syncVars, storeVars, idVars, valueVars, viewVars, replica, fieldVars, reviewPut>>

CallIds == 1..MaxCalls

\* ------------------------------------------------------------- strings
\* Strings are sequences of one-character strings so that trim() and
\* StartsWith() are computed.
HttpPrefix == <<"h", "t", "t", "p", ":", "/", "/">>
HttpsPrefix == <<"h", "t", "t", "p", "s", ":", "/", "/">>

IsSpace(ch) == ch \in {" ", "\n", "\t"}

RECURSIVE TrimStart(_)
TrimStart(s) == IF s # <<>> /\ IsSpace(Head(s)) THEN TrimStart(Tail(s)) ELSE s

RECURSIVE TrimEnd(_)
TrimEnd(s) ==
  IF s # <<>> /\ IsSpace(s[Len(s)]) THEN TrimEnd(SubSeq(s, 1, Len(s) - 1)) ELSE s

Trim(s) == TrimEnd(TrimStart(s))

StartsWith(s, p) == Len(s) >= Len(p) /\ SubSeq(s, 1, Len(p)) = p

\* ------------------------------------------------------- sync: values
\* A database object: its identity and its name. NoDb is undefined.
NoDb == [defined |-> FALSE, name |-> <<>>, obj |-> 0]
Db(name, obj) == [defined |-> TRUE, name |-> name, obj |-> obj]

\* The identity of the PouchDB instance a test passes in.
HandleObj == MaxCalls + 1

\* The syncServer argument as the caller passes it.
Str(chars) == [type |-> "string", ctor |-> "String", chars |-> chars]
NullTarget == [type |-> "null", ctor |-> "", chars |-> <<>>]
UndefinedTarget == [type |-> "undefined", ctor |-> "", chars |-> <<>>]
PouchTarget == [type |-> "object", ctor |-> "PouchDB", chars |-> <<"r">>]
DateTarget == [type |-> "object", ctor |-> "Date", chars |-> <<>>]

Targets ==
  { NullTarget, UndefinedTarget, Str(<<>>), Str(<<" ", "\n", " ">>),
    Str(HttpPrefix \o <<"a">>), Str(<<" ">> \o HttpPrefix \o <<"a">>),
    Str(HttpsPrefix \o <<"b">>), Str(<<"i", "r", "c", ":", "/", "/", "x">>),
    PouchTarget, DateTarget }

\* The options argument: undefined, or an object with some of the callbacks.
NoOptions == [defined |-> FALSE, cbs |-> {}]
Opts(cbs) == [defined |-> TRUE, cbs |-> cbs]
OptionChoices ==
  { NoOptions, Opts({"onProgress"}), Opts({"onError"}),
    Opts({"onProgress", "onIdle", "onActive", "onError"}) }

\* localUpdateSeq / remoteUpdateSeq: a number or undefined.
UndefSeq == [isNumber |-> FALSE, n |-> 0]
Num(n) == [isNumber |-> TRUE, n |-> n]

\* update_seq / last_seq as the database reports it: a number, a decimal
\* string, or a string with an opaque suffix ("2-g1AAAA"); last_seq may be
\* missing from a change.
SeqForms == {"number", "string", "opaque"}
UpdateSeqTokens == [form : SeqForms, n : 0..MaxSeq]
LastSeqTokens ==
  [form : SeqForms, n : 1..MaxSeq] \cup {[form |-> "absent", n |-> 0]}

\* parseInt(x, 10): the leading decimal digits.
parseInt10(tok) == tok.n

\* JavaScript truthiness of info.change.last_seq.
Truthy(tok) ==
  CASE tok.form = "absent" -> FALSE
    [] tok.form = "number" -> tok.n # 0
    [] OTHER -> TRUE

NoProgress == [isNull |-> TRUE, num |-> 0, den |-> 1]
Fraction(num, den) == [isNull |-> FALSE, num |-> num, den |-> den]

Max(a, b) == IF a >= b THEN a ELSE b
Min(a, b) == IF a <= b THEN a ELSE b

NoCb ==
  [kind |-> "none", call |-> 0, progress |-> NoProgress, cancelled |-> FALSE,
   indeterminate |-> FALSE, via |-> "none", during |-> 0]

InitCall ==
  [pc |-> "unused", syncServer |-> NoDb, options |-> NoOptions,
   originalDbName |-> <<>>, localUpdateSeq |-> UndefSeq,
   remoteUpdateSeq |-> UndefSeq, error |-> "none"]

NoArg == [call |-> 0, target |-> NullTarget]

InitSession == [started |-> FALSE, cancelled |-> FALSE, indeterminate |-> FALSE]

InitSync ==
  /\ initDone = FALSE
  /\ calls = [c \in CallIds |-> InitCall]
  /\ remoteDb = NoDb
  /\ remoteSync = 0
  /\ sessions = [c \in CallIds |-> InitSession]
  /\ immediates = <<>>
  /\ lastCb = NoCb
  /\ lastArg = NoArg
  /\ errCount = [c \in CallIds |-> 0]
  /\ cleared = FALSE

\* ------------------------------------------------------ sync: callbacks
HasCallback(o, cb) == o.defined /\ cb \in o.cbs

Bump(counts, c) == [counts EXCEPT ![c] = Min(@ + 1, 2)]

\* The identity guard of wrapCallback and changeCallback: TRUE when the
\* event is let through.
FromCurrentRemote(c) ==
  remoteDb.defined /\ calls[c].originalDbName = remoteDb.name

\* A reportErrorAsync that calls onError at once, inside setSyncServer.
reportErrorNow(c, o, err) ==
  /\ immediates' = immediates
  /\ lastCb' = IF HasCallback(o, "onError")
               THEN [NoCb EXCEPT !.kind = "onError", !.call = c,
                                 !.via = "direct", !.during = c]
               ELSE NoCb
  /\ errCount' = IF HasCallback(o, "onError") THEN Bump(errCount, c) ELSE errCount

\* The continuations of a resolved initDone are microtasks: they run before
\* any timer, I/O completion or replication event is handled.
Drained == initDone => \A c \in CallIds : calls[c].pc # "awaitInit"

\* The constructor's chain (info, the three view updates) completes.
ResolveInit ==
  /\ ~initDone
  /\ initDone' = TRUE
  /\ lastCb' = NoCb
  /\ lastArg' = NoArg
  /\ UNCHANGED <<calls, remoteDb, remoteSync, sessions, immediates, errCount,
                 cleared>>

  /\ UNCHANGED nonSyncVars
\* reportErrorAsync: queue onError, if there is one, with setImmediate.
reportErrorAsync(c, o, err) ==
  /\ immediates' = IF HasCallback(o, "onError")
                   THEN Append(immediates, [call |-> c, err |-> err])
                   ELSE immediates
  /\ lastCb' = NoCb
  /\ errCount' = errCount

\* The setImmediate task of reportErrorAsync.
RunImmediate ==
  /\ Drained
  /\ immediates # <<>>
  /\ lastCb' = [NoCb EXCEPT !.kind = "onError", !.call = Head(immediates).call,
                            !.via = "immediate"]
  /\ errCount' = Bump(errCount, Head(immediates).call)
  /\ immediates' = Tail(immediates)
  /\ lastArg' = NoArg
  /\ UNCHANGED <<calls, remoteDb, remoteSync, sessions, cleared>>
  /\ UNCHANGED initDone

  /\ UNCHANGED nonSyncVars
\* --------------------------------------------------- sync: setSyncServer
\* The first validation: the type of the argument.
RecognizedType(t) ==
  \/ t.type = "string"
  \/ t.type = "null"
  \/ t.type = "undefined"
  \/ (t.type = "object" /\ t.ctor = "PouchDB")

\* The second validation, of a trimmed string: non-empty and neither scheme.
UnrecognizedScheme(chars) ==
  /\ chars # <<>>
  /\ ~StartsWith(chars, HttpPrefix)
  /\ ~StartsWith(chars, HttpsPrefix)

\* The value of the local syncServer once validated (a string is trimmed),
\* as the database it stands for; falsy values stand for none.
ServerOf(c, t) ==
  CASE t.type = "string" ->
         IF Trim(t.chars) = <<>> THEN NoDb ELSE Db(Trim(t.chars), c)
    [] t.type = "object" -> Db(t.chars, HandleObj)
    [] OTHER -> NoDb

\* A validation placed after the teardown of the running session.
ThrowBadRequestAfterTeardown(c, o, reason) ==
  /\ reportErrorAsync(c, o, reason)
  /\ calls' = [calls EXCEPT ![c] =
                 [@ EXCEPT !.pc = "rejected", !.options = o,
                           !.error = "bad_request"]]
  /\ sessions' = IF remoteSync # 0
                 THEN [sessions EXCEPT ![remoteSync].cancelled = TRUE]
                 ELSE sessions
  /\ remoteSync' = 0
  /\ remoteDb' = NoDb
  /\ cleared' = cleared

\* Validation failed: report asynchronously and throw.
ThrowBadRequest(c, o, reason) ==
  /\ reportErrorAsync(c, o, reason)
  /\ calls' = [calls EXCEPT ![c] =
                 [@ EXCEPT !.pc = "rejected", !.options = o,
                           !.error = "bad_request"]]
  /\ UNCHANGED <<remoteDb, remoteSync, sessions, cleared>>

\* The synchronous part of setSyncServer, up to `await this.initDone`.
\* Calls are numbered in the order they are made.
setSyncServer(c, t, o) ==
  /\ calls[c].pc = "unused"
  /\ \A d \in 1..(c - 1) : calls[d].pc # "unused"
  /\ lastArg' = [call |-> c, target |-> t]
  /\ IF ~RecognizedType(t)
     THEN ThrowBadRequest(c, o, "unrecognized type")
     ELSE IF t.type = "string" /\ UnrecognizedScheme(Trim(t.chars))
     THEN ThrowBadRequest(c, o, "only http and https")
     ELSE /\ calls' = [calls EXCEPT ![c] =
                         [@ EXCEPT !.pc = "awaitInit",
                                   !.syncServer = ServerOf(c, t),
                                   !.options = o]]
          /\ cleared' = (cleared /\ ~ServerOf(c, t).defined)
          /\ lastCb' = NoCb
          /\ UNCHANGED <<remoteDb, remoteSync, sessions, immediates, errCount>>
  /\ UNCHANGED initDone

  /\ UNCHANGED nonSyncVars
\* After `await this.initDone`: cancel the session in remoteSync, clear
\* remoteDb, return for an empty target, else set remoteDb and ask the local
\* database for its info. Continuations of the resolved initDone run in the
\* order the calls were made.
AfterInit(c) ==
  /\ initDone
  /\ calls[c].pc = "awaitInit"
  /\ \A d \in 1..(c - 1) : calls[d].pc # "awaitInit"
  /\ sessions' = IF remoteSync # 0
                 THEN [sessions EXCEPT ![remoteSync].cancelled = TRUE]
                 ELSE sessions
  /\ remoteSync' = 0
  /\ IF ~calls[c].syncServer.defined
     THEN /\ remoteDb' = NoDb
          /\ calls' = [calls EXCEPT ![c].pc = "resolved"]
          /\ cleared' = \A d \in (c + 1)..MaxCalls : ~calls[d].syncServer.defined
     ELSE /\ remoteDb' = calls[c].syncServer
          /\ calls' = [calls EXCEPT ![c] =
                         [@ EXCEPT !.pc = "awaitLocalInfo",
                                   !.originalDbName = calls[c].syncServer.name]]
          /\ cleared' = cleared
  /\ lastCb' = NoCb
  /\ lastArg' = NoArg
  /\ UNCHANGED <<initDone, immediates, errCount>>

  /\ UNCHANGED nonSyncVars
\* The catch block around the two info() calls.
CatchConnectError(c, locals, err) ==
  IF ~remoteDb.defined \/ calls[c].originalDbName # remoteDb.name
  THEN /\ calls' = [calls EXCEPT ![c] = [locals EXCEPT !.pc = "resolved"]]
       /\ lastCb' = NoCb
       /\ UNCHANGED <<remoteDb, immediates, errCount>>
  ELSE /\ remoteDb' = NoDb
       /\ reportErrorAsync(c, calls[c].options, err)
       /\ calls' = [calls EXCEPT ![c] =
                      [locals EXCEPT !.pc = "rejected", !.error = err]]

\* this.db.info() resolved: keep its update_seq and call info() on whatever
\* this.remoteDb is now; with remoteDb undefined that call is a TypeError
\* inside the try block.
LocalInfoOk(c, tok) ==
  /\ Drained
  /\ calls[c].pc = "awaitLocalInfo"
  /\ LET locals == [calls[c] EXCEPT !.localUpdateSeq = Num(parseInt10(tok))] IN
       IF remoteDb.defined
       THEN /\ calls' = [calls EXCEPT ![c] =
                           [locals EXCEPT !.pc = "awaitRemoteInfo"]]
            /\ lastCb' = NoCb
            /\ UNCHANGED <<remoteDb, immediates, errCount>>
       ELSE CatchConnectError(c, locals, "TypeError")
  /\ lastArg' = NoArg
  /\ UNCHANGED <<remoteSync, sessions, cleared>>
  /\ UNCHANGED initDone

  /\ UNCHANGED nonSyncVars
LocalInfoFail(c) ==
  /\ Drained
  /\ calls[c].pc = "awaitLocalInfo"
  /\ CatchConnectError(c, calls[c], "info failed")
  /\ lastArg' = NoArg
  /\ UNCHANGED <<remoteSync, sessions, cleared>>
  /\ UNCHANGED initDone

  /\ UNCHANGED nonSyncVars
RemoteInfoFail(c) ==
  /\ Drained
  /\ calls[c].pc = "awaitRemoteInfo"
  /\ CatchConnectError(c, calls[c], "info failed")
  /\ lastArg' = NoArg
  /\ UNCHANGED <<remoteSync, sessions, cleared>>
  /\ UNCHANGED initDone

  /\ UNCHANGED nonSyncVars
\* remoteDb.info() resolved: keep its update_seq, start the live sync with
\* whatever this.remoteDb is now, keep the session in this.remoteSync and
\* register the callbacks. db.sync registers a listener on its target before
\* it returns, so with remoteDb undefined it throws a TypeError, outside the
\* try block: the call rejects and nothing is reported.
RemoteInfoOk(c, tok) ==
  /\ Drained
  /\ calls[c].pc = "awaitRemoteInfo"
  /\ LET locals == [calls[c] EXCEPT !.remoteUpdateSeq = Num(parseInt10(tok))] IN
       IF remoteDb.defined
       THEN /\ sessions' = [sessions EXCEPT ![c] =
                              [started |-> TRUE, cancelled |-> FALSE,
                               indeterminate |-> FALSE]]
            /\ remoteSync' = c
            /\ calls' = [calls EXCEPT ![c] =
                           [locals EXCEPT !.pc = "awaitRemoteDb"]]
       ELSE /\ calls' = [calls EXCEPT ![c] =
                           [locals EXCEPT !.pc = "rejected",
                                          !.error = "TypeError"]]
            /\ UNCHANGED <<sessions, remoteSync>>
  /\ lastCb' = NoCb
  /\ lastArg' = NoArg
  /\ UNCHANGED <<remoteDb, immediates, errCount, cleared>>
  /\ UNCHANGED initDone

  /\ UNCHANGED nonSyncVars
\* After the final `await this.remoteDb`.
Return(c) ==
  /\ calls[c].pc = "awaitRemoteDb"
  /\ calls' = [calls EXCEPT ![c].pc = "resolved"]
  /\ lastCb' = NoCb
  /\ lastArg' = NoArg
  /\ UNCHANGED <<remoteDb, remoteSync, sessions, immediates, errCount, cleared>>
  /\ UNCHANGED initDone

  /\ UNCHANGED nonSyncVars
\* ------------------------------------------------- sync: session events
\* A callback handed to the caller for an event of the session of call c.
Delivered(kind, c, progress) ==
  [kind |-> kind, call |-> c, progress |-> progress,
   cancelled |-> sessions[c].cancelled,
   indeterminate |-> sessions[c].indeterminate,
   via |-> "session", during |-> 0]

\* The progress computed by changeCallback from the two sequence numbers of
\* the call and the change's last_seq: the value passed to onProgress and
\* whether the sequence numbers are reset to undefined.
ProgressOf(local, remote, tok) ==
  IF local.isNumber /\ remote.isNumber /\ Truthy(tok)
  THEN LET upper == Max(local.n, remote.n)
           lower == Min(local.n, remote.n)
           current == parseInt10(tok)
       IN IF current < lower \/ upper = lower
          THEN [reset |-> TRUE, progress |-> NoProgress]
          ELSE [reset |-> FALSE,
                progress |-> Fraction(current - lower, upper - lower)]
  ELSE [reset |-> FALSE, progress |-> NoProgress]

\* changeCallback, registered for every session. The batches of these
\* events hold no Review Session document with conflicting revisions, so
\* onSyncChange has nothing to resolve.
ChangeEvent(c, tok) ==
  /\ Drained
  /\ sessions[c].started
  /\ IF FromCurrentRemote(c) /\ HasCallback(calls[c].options, "onProgress")
     THEN LET p == ProgressOf(calls[c].localUpdateSeq,
                              calls[c].remoteUpdateSeq, tok) IN
            /\ calls' = IF p.reset
                        THEN [calls EXCEPT ![c] =
                                [@ EXCEPT !.localUpdateSeq = UndefSeq,
                                          !.remoteUpdateSeq = UndefSeq]]
                        ELSE calls
            /\ sessions' = IF p.reset
                           THEN [sessions EXCEPT ![c].indeterminate = TRUE]
                           ELSE sessions
            /\ lastCb' = Delivered("onProgress", c, p.progress)
     ELSE /\ lastCb' = NoCb
          /\ UNCHANGED <<calls, sessions>>
  /\ lastArg' = NoArg
  /\ UNCHANGED <<remoteDb, remoteSync, immediates, errCount, cleared>>
  /\ UNCHANGED initDone

  /\ UNCHANGED nonSyncVars
\* The events wrapCallback is registered for: 'active' always, the others
\* only when options holds a function for them.
Registered(o, evt, cb) == evt = "active" \/ HasCallback(o, cb)

\* wrapCallback(evt, options[cb]) run for an event of the session of call c.
WrappedEvent(c, evt, cb) ==
  /\ Drained
  /\ sessions[c].started
  /\ LET runs == Registered(calls[c].options, evt, cb) /\ FromCurrentRemote(c)
         called == runs /\ HasCallback(calls[c].options, cb)
     IN /\ calls' = IF runs /\ evt = "paused"
                    THEN [calls EXCEPT ![c] =
                            [@ EXCEPT !.localUpdateSeq = UndefSeq,
                                      !.remoteUpdateSeq = UndefSeq]]
                    ELSE calls
        /\ lastCb' = IF called THEN Delivered(cb, c, NoProgress) ELSE NoCb
        /\ errCount' = errCount
  /\ sessions' = IF evt = "paused"
                 THEN [sessions EXCEPT ![c].indeterminate = TRUE]
                 ELSE sessions
  /\ lastArg' = NoArg
  /\ UNCHANGED <<remoteDb, remoteSync, immediates, cleared>>
  /\ UNCHANGED initDone

  /\ UNCHANGED nonSyncVars
PausedEvent(c) == WrappedEvent(c, "paused", "onIdle")
ActiveEvent(c) == WrappedEvent(c, "active", "onActive")
ErrorEvent(c) == WrappedEvent(c, "error", "onError")
DeniedEvent(c) == WrappedEvent(c, "denied", "onError")

\* ------------------------------------------------------ store: documents
\* A card is two documents, 'card-<id>' and 'progress-<id>'. A document is
\* the generation of its winning revision and whether that is a tombstone;
\* generation 0 is a document that was never written.
Kinds == {"card", "progress"}
Ids == 1..MaxIds
OpIds == 1..MaxOps

NoDoc == [rev |-> 0, deleted |-> FALSE]
Live(d) == d.rev > 0 /\ ~d.deleted

Sibling(k) == IF k = "card" THEN "progress" ELSE "card"

\* db.get: the document, or a 404 whose reason is 'missing' or 'deleted'.
Get(k, i) ==
  CASE Live(docs[k][i]) -> [status |-> "ok", rev |-> docs[k][i].rev]
    [] docs[k][i].rev = 0 -> [status |-> "missing", rev |-> 0]
    [] OTHER -> [status |-> "deleted", rev |-> 0]

\* A put that takes the place of whatever has the id.
PutNewOkAlways(k, i) == TRUE

\* db.put without _rev is accepted unless a live document has the id.
PutNewOk(k, i) == ~Live(docs[k][i])

\* db.put / db.remove with _rev is accepted when _rev is the winning
\* revision of a live document; otherwise it fails (409).
PutRevOk(k, i, rev) == Live(docs[k][i]) /\ docs[k][i].rev = rev

\* An accepted write: a new revision, which the live changes feed reports
\* to the listener of the changes getter, if there is one.
Write(k, i, deleted) ==
  /\ docs' = [docs EXCEPT ![k][i] = [rev |-> @.rev + 1, deleted |-> deleted]]
  /\ feed' = IF changesEmitter
             THEN Append(feed, [kind |-> k, id |-> i, rev |-> docs[k][i].rev + 1,
                                deleted |-> deleted])
             ELSE feed

NoWrite == UNCHANGED <<docs, feed>>

InitOp ==
  [op |-> "none", pc |-> "unused", kind |-> "card", id |-> 0, rev |-> 0,
   cardKeys |-> FALSE, progressChange |-> FALSE, watched |-> FALSE,
   error |-> "none", retried |-> FALSE]

NoReturned == [defined |-> FALSE, cardRev |-> 0, progressRev |-> 0]

InitStore ==
  /\ docs = [k \in Kinds |-> [i \in Ids |-> NoDoc]]
  /\ ops = [o \in OpIds |-> InitOp]
  /\ changesEmitter = FALSE
  /\ feed = <<>>
  /\ handlers = {}
  /\ returnedCards = [i \in Ids |-> NoReturned]
  /\ emitted = 0
  /\ deletedEmitted = 0

\* ------------------------------------------------- ids: generateCardId
Radix == 36         \* timestamp.toString(36)
IdWidth == 8        \* slice(-8)
Digits == 0..(Radix - 1)

\* A non-negative number is its base-36 numeral, most significant digit
\* first, which is what toString(36) returns; digit d is the character
\* '0'..'9', 'a'..'z' at place d, so the order of the characters' code units
\* is the order of the digits.
Zero == <<0>>

RECURSIVE Inc(_)
Inc(n) ==
  IF n = <<>> THEN <<1>>
  ELSE IF n[Len(n)] = Radix - 1
       THEN Inc(SubSeq(n, 1, Len(n) - 1)) \o <<0>>
       ELSE SubSeq(n, 1, Len(n) - 1) \o <<n[Len(n)] + 1>>

\* String comparison a < b: the first place where they differ decides; a
\* proper prefix is smaller.
RECURSIVE StrLess(_, _)
StrLess(a, b) ==
  IF b = <<>> THEN FALSE
  ELSE IF a = <<>> THEN TRUE
  ELSE IF Head(a) # Head(b) THEN Head(a) < Head(b)
  ELSE StrLess(Tail(a), Tail(b))

\* a <= b for numerals without leading zeros.
NumLeq(a, b) ==
  \/ Len(a) < Len(b)
  \/ Len(a) = Len(b) /\ (a = b \/ StrLess(a, b))

\* s.slice(-n)
SliceLast(s, n) == IF Len(s) > n THEN SubSeq(s, Len(s) - n + 1, Len(s)) ELSE s

\* Date.now() - Date.UTC(2016, 0, 1): negative for a clock set before 2016.
Clock(digits) == [neg |-> FALSE, digits |-> digits]
Before2016 == [neg |-> TRUE, digits |-> Zero]

\* Clock readings: before 2016; the last millisecond with a 6-digit numeral
\* (25 January 2016); the last two milliseconds with a 7-digit
\* numeral (June 2018); the first with 8 digits; one of late 2026; the last
\* with 8 digits (2105).
Clocks ==
  { Before2016,
    Clock(<<35, 35, 35, 35, 35, 35>>),
    Clock(<<35, 35, 35, 35, 35, 35, 34>>),
    Clock(<<35, 35, 35, 35, 35, 35, 35>>),
    Clock(<<1, 0, 0, 0, 0, 0, 0, 0>>),
    Clock(<<4, 13, 0, 7, 35, 35, 35, 35>>),
    Clock(<<35, 35, 35, 35, 35, 35, 35, 35>>) }

\* `00${Math.floor(Math.random() * 46656).toString(36)}`.slice(-3)
Suffixes == {<<0, 0, 0>>, <<0, 0, 10>>, <<35, 35, 35>>}

InitIds ==
  /\ prevTimeStamp = Zero
  /\ issued = <<>>
  /\ inRange = TRUE
  /\ bumped = FALSE

\* The timestamp taken from the clock as it reads.
NextTimeStampUnadjusted(now) == IF now.neg THEN Zero ELSE now.digits

\* The timestamp of a call: the clock's, or ++prevTimeStamp when the clock
\* is not ahead of prevTimeStamp.
NextTimeStamp(now) ==
  IF now.neg \/ NumLeq(now.digits, prevTimeStamp)
  THEN Inc(prevTimeStamp)
  ELSE now.digits

\* The id: '0' and the numeral cut to its last eight characters, then the
\* three random characters.
IdOf(timestamp, suffix) == SliceLast(<<0>> \o timestamp, IdWidth) \o suffix

\* One run of generateCardId's body.
IdIssued(now, suffix) ==
  LET timestamp == NextTimeStamp(now) IN
    /\ prevTimeStamp' = timestamp
    /\ issued' = Append(issued, IdOf(timestamp, suffix))
    /\ inRange' = (inRange /\ Len(timestamp) \in {IdWidth - 1, IdWidth})
    /\ bumped' = (bumped \/ now.neg \/ NumLeq(now.digits, prevTimeStamp))

generateCardId ==
  /\ Len(issued) < MaxGenerated
  /\ \E now \in Clocks, suffix \in Suffixes : IdIssued(now, suffix)
  /\ UNCHANGED nonIdVars

\* ------------------------------------------------- values: the records
\* What the documents hold, for a caller who awaits each call: a call runs
\* to its return before the next is made, and no write fails. The n-th
\* card created has the id issued[n].
Entities == 1..MaxEntities
Levels == 0..MaxLevel

\* A time is counted in whole days since the epoch: as a number in a
\* progress record, as a Date in a Progress.
Null == [null |-> TRUE, t |-> 0]
Time(t) == [null |-> FALSE, t |-> t]
ReviewedDays == {0, 1}

\* The argument of putCard: question (a key of the card, or none), and
\* progress.level and progress.reviewed (a Date, or none).
QuestionArgs == {[has |-> FALSE, v |-> ""], [has |-> TRUE, v |-> "q"]}
LevelArgs == {[has |-> FALSE, v |-> 0]} \cup {[has |-> TRUE, v |-> l] : l \in Levels}
ReviewedArgs == {Null} \cup {Time(t) : t \in ReviewedDays}
CardArgs == [question : QuestionArgs, level : LevelArgs, reviewed : ReviewedArgs]

NoRecord ==
  [card |-> [live |-> FALSE, question |-> ""],
   progress |-> [live |-> FALSE, level |-> 0, reviewed |-> Null]]

parseCard(card) == [question |-> card.question]

\* reviewed: progress.reviewed ? new Date(progress.reviewed) : null
parseProgress(progress) ==
  [level |-> progress.level,
   reviewed |-> IF progress.reviewed.null \/ progress.reviewed.t = 0
                THEN Null
                ELSE progress.reviewed]

mergeRecords(card, progress) ==
  [question |-> parseCard(card).question, progress |-> parseProgress(progress)]

NoEntity == [question |-> "", progress |-> [level |-> 0, reviewed |-> Null]]

NoResult ==
  [call |-> "none", id |-> 0, status |-> "none", entity |-> NoEntity,
   wrote |-> {}, same |-> FALSE, plain |-> FALSE]

InitValues ==
  /\ records = [n \in Entities |-> NoRecord]
  /\ result = NoResult
  /\ reviewTime = 2

\* question: card.question || ''
cardToPut(arg) ==
  [live |-> TRUE, question |-> IF arg.question.has THEN arg.question.v ELSE ""]

\* A progress record that takes level 1 where none is given.
progressToPutLevelOne(arg) ==
  [live |-> TRUE,
   level |-> IF arg.level.has THEN arg.level.v ELSE 1,
   reviewed |-> arg.reviewed]

\* reviewed: the Date's getTime(), else null; level: the level given, else 0.
progressToPut(arg) ==
  [live |-> TRUE,
   level |-> IF arg.level.has THEN arg.level.v ELSE 0,
   reviewed |-> arg.reviewed]

\* putCard without _id, awaited: the id is generated (one that overlaps
\* is generated again), both records are put, and the merged records are
\* returned. plain: the argument gives no
\* level other than 0 and no reviewed Date.
PutNewCard(arg, now, suffix) ==
  /\ Len(issued) < MaxEntities
  /\ \A m \in 1..Len(issued) : issued[m] # IdOf(NextTimeStamp(now), suffix)
  /\ IdIssued(now, suffix)
  /\ LET n == Len(issued) + 1 IN
       /\ records' = [records EXCEPT ![n] = [card |-> cardToPut(arg),
                                             progress |-> progressToPut(arg)]]
       /\ result' = [call |-> "create", id |-> n, status |-> "ok",
                     entity |-> mergeRecords(cardToPut(arg), progressToPut(arg)),
                     wrote |-> Kinds, same |-> FALSE,
                     plain |-> (~arg.level.has \/ arg.level.v = 0)
                               /\ arg.reviewed.null]
  /\ UNCHANGED reviewTime
  /\ UNCHANGED nonValueVars

\* The fields the argument gives all have the values stored.
Same(arg, record) ==
  /\ arg.question.has => record.card.question = arg.question.v
  /\ arg.level.has => record.progress.level = arg.level.v
  /\ ~arg.reviewed.null => record.progress.reviewed = arg.reviewed

\* putCard with the _id of the n-th card, awaited: _updateCard writes the
\* card when the update has a key, _updateProgress writes the progress
\* when reviewed or level differ from the stored ones; a record that is
\* not found ends the call with not_found.
UpdateCard(n, arg) ==
  /\ n \in 1..Len(issued)
  /\ LET record == records[n]
         writeCard == record.card.live /\ arg.question.has
         card == IF writeCard
                 THEN [record.card EXCEPT !.question = arg.question.v]
                 ELSE record.card
         found == record.card.live /\ record.progress.live
         newReviewed == ~arg.reviewed.null /\ record.progress.reviewed # arg.reviewed
         newLevel == arg.level.has /\ record.progress.level # arg.level.v
         writeProgress == found /\ (newReviewed \/ newLevel)
         progress == IF writeProgress
                     THEN [record.progress EXCEPT
                             !.reviewed = IF newReviewed THEN arg.reviewed ELSE @,
                             !.level = IF newLevel THEN arg.level.v ELSE @]
                     ELSE record.progress
     IN /\ records' = [records EXCEPT ![n] = [card |-> card, progress |-> progress]]
        /\ result' = [call |-> "update", id |-> n,
                      status |-> IF found THEN "ok" ELSE "not_found",
                      entity |-> IF found THEN mergeRecords(card, progress)
                                          ELSE NoEntity,
                      wrote |-> (IF writeCard THEN {"card"} ELSE {})
                                  \cup (IF writeProgress THEN {"progress"} ELSE {}),
                      same |-> Same(arg, record), plain |-> FALSE]
  /\ UNCHANGED <<reviewTime, idVars>>
  /\ UNCHANGED nonValueVars

\* deleteCard of the n-th card, awaited.
DeleteCard(n) ==
  /\ n \in 1..Len(issued)
  /\ records' = [records EXCEPT ![n].card.live = FALSE, ![n].progress.live = FALSE]
  /\ result' = [NoResult EXCEPT
                  !.call = "delete", !.id = n, !.status = "ok",
                  !.wrote = {k \in Kinds : records[n][k].live}]
  /\ UNCHANGED <<reviewTime, idVars>>
  /\ UNCHANGED nonValueVars

\* getCard of the n-th card.
getCard(n) ==
  IF records[n].card.live /\ records[n].progress.live
  THEN [status |-> "ok", entity |-> mergeRecords(records[n].card, records[n].progress)]
  ELSE [status |-> "not_found", entity |-> NoEntity]

\* ------------------------------------------------- values: getCards
\* The views index the progress documents that are not deleted.
cardMapFunction(n) == records[n].progress.live

\* A view of the cards whose level is 0.
newCardMapByLevel(n) ==
  records[n].progress.live /\ records[n].progress.level = 0

newCardMapFunction(n) ==
  records[n].progress.live /\ records[n].progress.reviewed = Null

\* Ascending key order: descending not set.
BeforeAscending(a, b) == StrLess(issued[a], issued[b])

\* descending: true. The keys are the progress documents' ids, the prefix
\* and the card's id.
Before(a, b) == StrLess(issued[b], issued[a])

RECURSIVE Ordered(_)
Ordered(rows) ==
  IF rows = {} THEN <<>>
  ELSE LET first == CHOOSE a \in rows : \A b \in rows \ {a} : Before(a, b)
       IN <<first>> \o Ordered(rows \ {first})

NoLimit == [has |-> FALSE, v |-> 0]
Limit(v) == [has |-> TRUE, v |-> v]
Limits == {NoLimit} \cup {Limit(v) : v \in Entities}

\* getCards with type '' or 'new': the rows of the view in descending key
\* order, at most `limit` of them, without the rows whose card document is
\* not found; the cards by their order of creation.
getCards(type, limit) ==
  LET rows == Ordered({n \in 1..Len(issued) :
                         IF type = "new" THEN newCardMapFunction(n)
                                         ELSE cardMapFunction(n)})
      limited == IF limit.has THEN SubSeq(rows, 1, Min(limit.v, Len(rows)))
                              ELSE rows
  IN SelectSeq(limited, LAMBDA n : records[n].card.live)

\* ------------------------------------------------- values: overdueness
\* The largest whole number of days overdue for which
\* Math.exp(EXP_FACTOR * daysOverdue) is a finite double.
MaxFiniteDays == 315458

\* A review time beyond it.
FarFuture == 400000

\* A review time some fifty years after the cards were reviewed.
Decades == 20000
ReviewTimes == {2, Decades, FarFuture}

\* The key the overdueness view gives a progress record: none,
\* Number.MAX_VALUE, a finite double, or what the overflow of Math.exp or
\* a division by 0 leaves.
NoScore == [kind |-> "none", daysOverdue |-> 0, level |-> 0]
MAX_VALUE == [kind |-> "max", daysOverdue |-> 0, level |-> 0]
Score(daysOverdue, level) ==
  [kind |-> IF level = 0 \/ daysOverdue > MaxFiniteDays THEN "overflow" ELSE "finite",
   daysOverdue |-> daysOverdue, level |-> level]

\* The map function with the difference of the times taken the other way.
getOverduenessReversed(progress) ==
  IF ~progress.live \/ progress.reviewed.null
  THEN NoScore
  ELSE IF progress.level = 0
  THEN MAX_VALUE
  ELSE Score((progress.reviewed.t - viewTime) - progress.level, progress.level)

\* The map function without the case of level 0.
getOverduenessNoSentinel(progress) ==
  IF ~progress.live \/ progress.reviewed.null
  THEN NoScore
  ELSE Score((viewTime - progress.reviewed.t) - progress.level, progress.level)

\* The map function of the overdueness view: getOverduenessFunction of the
\* review time the design document was written with.
getOverdueness(progress) ==
  IF ~progress.live \/ progress.reviewed.null
  THEN NoScore
  ELSE IF progress.level = 0
  THEN MAX_VALUE
  ELSE Score((viewTime - progress.reviewed.t) - progress.level, progress.level)

TimeCallIds == 1..MaxTimeCalls

InitTimeCall == [pc |-> "unused", t |-> 0, map |-> 0, stale |-> FALSE]

InitView ==
  /\ viewTime = 2
  /\ timeCalls = [c \in TimeCallIds |-> InitTimeCall]

\* setReviewTime, awaited: the field is set and updateOverduenessView has
\* put the design document with the map function of the new time.
setReviewTime(t) ==
  /\ reviewTime' = t
  /\ viewTime' = t
  /\ UNCHANGED <<records, result, idVars, timeCalls>>
  /\ UNCHANGED <<syncVars, storeVars, reviewVars, replica, fieldVars, reviewPut>>

\* setReviewTime up to the db.get of updateOverduenessView's upsert:
\* this.reviewTime is assigned before anything is awaited.
callSetReviewTime(c, t) ==
  /\ timeCalls[c].pc = "unused"
  /\ \A d \in 1..(c - 1) : timeCalls[d].pc # "unused"
  /\ reviewTime' = t
  /\ timeCalls' = [timeCalls EXCEPT ![c] = [InitTimeCall EXCEPT !.pc = "get", !.t = t]]
  /\ UNCHANGED <<records, result, idVars, viewTime>>
  /\ UNCHANGED <<syncVars, storeVars, reviewVars, replica, fieldVars, reviewPut>>

\* An upsert whose document is built from the argument of the call.
OverduenessGetCaptured(c) ==
  /\ timeCalls[c].pc = "get"
  /\ timeCalls' = [timeCalls EXCEPT ![c] =
                     [@ EXCEPT !.pc = "put", !.map = timeCalls[c].t, !.stale = FALSE]]
  /\ UNCHANGED viewTime
  /\ UNCHANGED <<nonViewVars, valueVars>>

\* The db.get of the upsert settles and the diff function builds the
\* design document from this.reviewTime as it is now.
OverduenessGet(c) ==
  /\ timeCalls[c].pc = "get"
  /\ timeCalls' = [timeCalls EXCEPT ![c] =
                     [@ EXCEPT !.pc = "put", !.map = reviewTime, !.stale = FALSE]]
  /\ UNCHANGED viewTime
  /\ UNCHANGED <<nonViewVars, valueVars>>

\* The db.put of the upsert settles: the design document is written and
\* the revisions the other upserts have read are stale, or, at a stale
\* revision, a 409 and the upsert starts over.
OverduenessPut(c) ==
  /\ timeCalls[c].pc = "put"
  /\ IF timeCalls[c].stale
     THEN /\ timeCalls' = [timeCalls EXCEPT ![c].pc = "get"]
          /\ UNCHANGED viewTime
     ELSE /\ viewTime' = timeCalls[c].map
          /\ timeCalls' = [d \in TimeCallIds |->
                             IF d = c THEN [timeCalls[d] EXCEPT !.pc = "done"]
                             ELSE IF timeCalls[d].pc = "put"
                             THEN [timeCalls[d] EXCEPT !.stale = TRUE]
                             ELSE timeCalls[d]]
  /\ UNCHANGED <<nonViewVars, valueVars>>

\* SpecReviewTime: setReviewTime invocations that overlap in every way.
NextReviewTime ==
  \/ \E c \in TimeCallIds, t \in ReviewTimes : callSetReviewTime(c, t)
  \/ \E c \in TimeCallIds : OverduenessGet(c)
  \/ \E c \in TimeCallIds : OverduenessPut(c)

\* The clock of the value specifications: a day of late 2026.
Today == Clock(<<4, 13, 0, 7, 35, 35, 35, 35>>)

\* SpecValues: cards created, updated and deleted with every argument.
NextValues ==
  \/ \E arg \in CardArgs, suffix \in Suffixes :
       Len(issued) < MaxValued /\ PutNewCard(arg, Today, suffix)
  \/ \E n \in Entities, arg \in CardArgs : UpdateCard(n, arg)
  \/ \E n \in Entities : DeleteCard(n)

\* putCard({}): no question, no progress.
DefaultArg == [question |-> [has |-> FALSE, v |-> ""],
               level |-> [has |-> FALSE, v |-> 0], reviewed |-> Null]

\* SpecListing: cards created under every clock, and deleted.
NextListing ==
  \/ \E now \in Clocks, suffix \in Suffixes : PutNewCard(DefaultArg, now, suffix)
  \/ \E n \in Entities : DeleteCard(n)

\* The arguments that give no question.
ProgressArgs == {arg \in CardArgs : ~arg.question.has}

\* SpecReviewed: cards created, updated and deleted with every progress.
NextReviewed ==
  \/ \E arg \in ProgressArgs : PutNewCard(arg, Today, <<0, 0, 0>>)
  \/ \E n \in Entities, arg \in ProgressArgs : UpdateCard(n, arg)
  \/ \E n \in Entities : DeleteCard(n)

\* SpecRanking: cards created and updated with every progress, under
\* every review time.
NextRanking ==
  \/ \E arg \in ProgressArgs : PutNewCard(arg, Today, <<0, 0, 0>>)
  \/ \E n \in Entities, arg \in ProgressArgs : UpdateCard(n, arg)
  \/ \E t \in ReviewTimes : setReviewTime(t)


\* ---------------------------------------------------------------------
\* Review documents: getReview, putReview, deleteReview, and the
\* revisions replication writes.
\* ---------------------------------------------------------------------

ReviewIds == 1..MaxReviewIds

FailedLists == {<<>>, <<"c">>}

\* The argument of putReview (a Review): reviewTime is a Date.
ReviewArgs ==
  [reviewTime : {Time(2)}, completed : 0..MaxCompleted,
   failedCardsLevel1 : FailedLists, failedCardsLevel2 : FailedLists]

PlainReviews ==
  {r \in ReviewArgs : r.failedCardsLevel1 = <<>> /\ r.failedCardsLevel2 = <<>>}

FirstReviews == {r \in PlainReviews : r.completed <= 1}

\* The ReviewRecord putReview stores: reviewTime as a number.
reviewToPut(review) == [review EXCEPT !.reviewTime = review.reviewTime.t]

parseReview(review) == [review EXCEPT !.reviewTime = Time(review.reviewTime)]

NoReview ==
  [reviewTime |-> 0, completed |-> 0, failedCardsLevel1 |-> <<>>,
   failedCardsLevel2 |-> <<>>]

\* A document: rev counts the changes of its winning revision (0: the
\* document never existed), live is whether the winning revision is not a
\* tombstone, conflicts are the contents of its other live leaves.
NoReviewDoc == [rev |-> 0, live |-> FALSE, content |-> NoReview, conflicts |-> {}]

NoDeletion == [pc |-> "unused", existed |-> {}, listed |-> [i \in ReviewIds |-> 0],
               wrote |-> FALSE]

NoReturn == [call |-> "none", null |-> TRUE, review |-> parseReview(NoReview),
             id |-> 0, deleted |-> FALSE]

InitReviews ==
  /\ reviewDocs = [i \in ReviewIds |-> NoReviewDoc]
  /\ deletion = NoDeletion
  /\ reviewResult = NoReturn
  /\ noteDoc = [live |-> FALSE, content |-> [created |-> 0, modified |-> 0],
                conflicts |-> {}]

LiveReviews == {i \in ReviewIds : reviewDocs[i].live}

\* allDocs over the review prefix, descending, limit 1: the rows of allDocs
\* are the documents that are not deleted.
NoRow == [found |-> FALSE, id |-> 0, doc |-> NoReview]
GetReviewRow ==
  IF LiveReviews = {} THEN NoRow
  ELSE LET i == CHOOSE j \in LiveReviews : \A k \in LiveReviews : k <= j
       IN [found |-> TRUE, id |-> i, doc |-> reviewDocs[i].content]

\* A write during a deleteReview is remembered by it.
Noted == IF deletion.pc \in {"allDocs", "bulkDocs"}
         THEN [deletion EXCEPT !.wrote = TRUE] ELSE deletion

getReview ==
  /\ reviewResult' =
       IF GetReviewRow.found
       THEN [NoReturn EXCEPT !.call = "getReview", !.null = FALSE,
                             !.review = parseReview(GetReviewRow.doc)]
       ELSE [NoReturn EXCEPT !.call = "getReview"]
  /\ UNCHANGED <<reviewDocs, deletion, noteDoc>>
  /\ UNCHANGED nonReviewVars

\* putReview, awaited: the id of the existing review or one made from the
\* clock (now), then an upsert whose diff function returns the record.
putReviewFresh(review, now) ==
  /\ reviewDocs[now].rev < MaxRevs
  /\ reviewDocs' = [reviewDocs EXCEPT ![now] =
                      [@ EXCEPT !.rev = @ + 1, !.live = TRUE,
                                !.content = reviewToPut(review)]]
  /\ deletion' = Noted
  /\ reviewResult' = [NoReturn EXCEPT !.call = "putReview", !.null = FALSE,
                                        !.review = review]
  /\ UNCHANGED noteDoc
  /\ UNCHANGED nonReviewVars

putReview(review, now) ==
  LET reviewId == IF GetReviewRow.found THEN GetReviewRow.id ELSE now
  IN /\ reviewDocs[reviewId].rev < MaxRevs
     /\ reviewDocs' = [reviewDocs EXCEPT ![reviewId] =
                         [@ EXCEPT !.rev = @ + 1, !.live = TRUE,
                                   !.content = reviewToPut(review)]]
     /\ deletion' = Noted
     /\ reviewResult' = [NoReturn EXCEPT !.call = "putReview", !.null = FALSE,
                                        !.review = review]
     /\ UNCHANGED noteDoc
     /\ UNCHANGED nonReviewVars

\* putReview step by step. It is called: _getReview is asked for the
\* existing review.
NoReviewPut == [pc |-> "unused", review |-> parseReview(NoReview), id |-> 0, base |-> 0]

InitReviewPut == reviewPut = NoReviewPut

nonPutVars ==
  <<syncVars, storeVars, idVars, valueVars, viewVars, replica, fieldVars>>

callPutReview(review) ==
  /\ reviewPut.pc = "unused"
  /\ reviewPut' = [NoReviewPut EXCEPT !.pc = "getReview", !.review = review]
  /\ reviewResult' = NoReturn
  /\ UNCHANGED <<reviewDocs, deletion, noteDoc>>
  /\ UNCHANGED nonPutVars

\* _getReview settles: the id of the existing review or one made from the
\* clock (now); the upsert of that document starts.
PutReviewGetReview(now) ==
  /\ reviewPut.pc = "getReview"
  /\ reviewPut' = [reviewPut EXCEPT !.pc = "upsertGet",
                     !.id = IF GetReviewRow.found THEN GetReviewRow.id ELSE now]
  /\ reviewResult' = NoReturn
  /\ UNCHANGED <<reviewDocs, deletion, noteDoc>>
  /\ UNCHANGED nonPutVars

\* The db.get of the upsert settles: the revision of the document, or none
\* for a document that is missing or deleted. The diff function returns
\* the record whatever it is given.
PutReviewUpsertGet ==
  /\ reviewPut.pc = "upsertGet"
  /\ reviewPut' = [reviewPut EXCEPT !.pc = "upsertPut",
                     !.base = IF reviewDocs[reviewPut.id].live
                              THEN reviewDocs[reviewPut.id].rev ELSE 0]
  /\ reviewResult' = NoReturn
  /\ UNCHANGED <<reviewDocs, deletion, noteDoc>>
  /\ UNCHANGED nonPutVars

\* Whether db.put accepts the document: at the winning revision of a live
\* document, or without a revision when no live document has the id.
ReviewPutOk ==
  IF reviewPut.base = 0
  THEN ~reviewDocs[reviewPut.id].live
  ELSE reviewDocs[reviewPut.id].live /\ reviewDocs[reviewPut.id].rev = reviewPut.base

\* An upsert that fails with the 409 of its put.
PutReviewUpsertPutOnce ==
  /\ reviewPut.pc = "upsertPut"
  /\ IF ReviewPutOk
     THEN /\ reviewDocs' = [reviewDocs EXCEPT ![reviewPut.id] =
                              [@ EXCEPT !.rev = @ + 1, !.live = TRUE,
                                        !.content = reviewToPut(reviewPut.review)]]
          /\ deletion' = Noted
          /\ reviewPut' = [reviewPut EXCEPT !.pc = "done"]
          /\ reviewResult' = [NoReturn EXCEPT !.call = "putReview", !.null = FALSE,
                                             !.review = reviewPut.review]
     ELSE /\ reviewPut' = [reviewPut EXCEPT !.pc = "failed"]
          /\ reviewResult' = NoReturn
          /\ UNCHANGED <<reviewDocs, deletion>>
  /\ UNCHANGED noteDoc
  /\ UNCHANGED nonPutVars

\* The db.put of the upsert settles: written and putReview returns, or a
\* 409 and the upsert starts over.
PutReviewUpsertPut ==
  /\ reviewPut.pc = "upsertPut"
  /\ IF ReviewPutOk
     THEN /\ reviewDocs' = [reviewDocs EXCEPT ![reviewPut.id] =
                              [@ EXCEPT !.rev = @ + 1, !.live = TRUE,
                                        !.content = reviewToPut(reviewPut.review)]]
          /\ deletion' = Noted
          /\ reviewPut' = [reviewPut EXCEPT !.pc = "done"]
          /\ reviewResult' = [NoReturn EXCEPT !.call = "putReview", !.null = FALSE,
                                             !.review = reviewPut.review]
     ELSE /\ reviewPut' = [reviewPut EXCEPT !.pc = "upsertGet"]
          /\ reviewResult' = NoReturn
          /\ UNCHANGED <<reviewDocs, deletion>>
  /\ UNCHANGED noteDoc
  /\ UNCHANGED nonPutVars

\* deleteReview is called: the documents there are now are the ones it is
\* to remove.
callDeleteReview ==
  /\ deletion.pc \in {"unused", "done"}
  /\ deletion' = [NoDeletion EXCEPT !.pc = "allDocs", !.existed = LiveReviews]
  /\ reviewResult' = NoReturn
  /\ UNCHANGED <<reviewDocs, noteDoc>>
  /\ UNCHANGED nonReviewVars

\* deleteReviews: allDocs settles with the ids and revisions of the
\* documents that are not deleted; with no rows, deleteReview returns.
DeleteAllDocs ==
  /\ deletion.pc = "allDocs"
  /\ deletion' = [deletion EXCEPT
                    !.pc = IF LiveReviews = {} THEN "done" ELSE "bulkDocs",
                    !.listed = [i \in ReviewIds |->
                                  IF reviewDocs[i].live THEN reviewDocs[i].rev ELSE 0]]
  /\ reviewResult' = IF LiveReviews = {}
                     THEN [NoReturn EXCEPT !.call = "deleteReview"] ELSE NoReturn
  /\ UNCHANGED <<reviewDocs, noteDoc>>
  /\ UNCHANGED nonReviewVars

\* The winning revision of a document is removed: another live leaf, if
\* there is one, is the winning revision from then on.
Removed(doc) ==
  IF doc.conflicts = {}
  THEN [doc EXCEPT !.rev = @ + 1, !.live = FALSE]
  ELSE LET next == CHOOSE c \in doc.conflicts : TRUE
       IN [doc EXCEPT !.rev = @ + 1, !.content = next, !.conflicts = @ \ {next}]

Rejected(i) == deletion.listed[i] # 0 /\ deletion.listed[i] # reviewDocs[i].rev

\* deleteReviews: bulkDocs settles; each row was removed at the revision
\* listed, or got a 409; with any 409 deleteReviews runs again.
DeleteBulkDocs ==
  /\ deletion.pc = "bulkDocs"
  /\ reviewDocs' = [i \in ReviewIds |->
                      IF deletion.listed[i] # 0 /\ ~Rejected(i)
                      THEN Removed(reviewDocs[i]) ELSE reviewDocs[i]]
  /\ deletion' = [deletion EXCEPT
                    !.pc = IF \E i \in ReviewIds : Rejected(i) THEN "allDocs" ELSE "done"]
  /\ reviewResult' = IF \E i \in ReviewIds : Rejected(i)
                     THEN NoReturn ELSE [NoReturn EXCEPT !.call = "deleteReview"]
  /\ UNCHANGED noteDoc
  /\ UNCHANGED nonReviewVars

\* The pull of a sync session writes a revision made on another device: a
\* new document or a successor of the winning revision,
pullReview(i, review) ==
  /\ reviewDocs[i].rev < MaxRevs
  /\ reviewDocs[i].rev = 0 \/ reviewDocs[i].live
  /\ reviewDocs' = [reviewDocs EXCEPT ![i] =
                      [@ EXCEPT !.rev = @ + 1, !.live = TRUE,
                                !.content = reviewToPut(review)]]
  /\ deletion' = Noted
  /\ reviewResult' = NoReturn
  /\ UNCHANGED noteDoc
  /\ UNCHANGED nonReviewVars

\* a live revision on another branch (next to a tombstone it is the
\* winning revision),
pullReviewConflict(i, review) ==
  /\ reviewDocs[i].rev > 0
  /\ reviewDocs[i].rev < MaxRevs
  /\ IF reviewDocs[i].live
     THEN /\ reviewToPut(review) # reviewDocs[i].content
          /\ Cardinality(reviewDocs[i].conflicts \cup {reviewToPut(review)}) <= MaxConflicts
          /\ reviewDocs' = [reviewDocs EXCEPT ![i].conflicts = @ \cup {reviewToPut(review)}]
     ELSE /\ reviewDocs' = [reviewDocs EXCEPT ![i] =
                              [@ EXCEPT !.rev = @ + 1, !.live = TRUE,
                                        !.content = reviewToPut(review)]]
  /\ deletion' = Noted
  /\ reviewResult' = NoReturn
  /\ UNCHANGED noteDoc
  /\ UNCHANGED nonReviewVars

\* or the tombstone that follows the winning revision.
pullReviewDeleted(i) ==
  /\ reviewDocs[i].live
  /\ reviewDocs' = [reviewDocs EXCEPT ![i] = Removed(@)]
  /\ reviewResult' = NoReturn
  /\ UNCHANGED <<deletion, noteDoc>>
  /\ UNCHANGED nonReviewVars

\* The resolver onSyncReviewChange passes to resolveConflicts.
completeness(review) ==
  review.completed - Len(review.failedCardsLevel2) * 2 - Len(review.failedCardsLevel1)

ResolveReviewLeast(a, b) == IF completeness(a) <= completeness(b) THEN a ELSE b

ResolveReview(a, b) == IF completeness(a) >= completeness(b) THEN a ELSE b

\* resolveConflicts: the winning revision and the conflicting ones are
\* reduced with the resolver, pair by pair, to the one that is kept.
RECURSIVE ReduceReviews(_, _)
ReduceReviews(winning, conflicting) ==
  IF conflicting = {} THEN winning
  ELSE LET doc == CHOOSE d \in conflicting : TRUE
       IN ReduceReviews(ResolveReview(doc, winning), conflicting \ {doc})

\* onSyncReviewChange for a pulled revision that is not a deletion: the
\* document is read with its conflicts; with conflicts, resolveConflicts
\* keeps the revision the resolver chose and removes the others.
onSyncReviewChange(i) ==
  /\ reviewDocs[i].live
  /\ reviewDocs[i].conflicts # {}
  /\ LET kept == ReduceReviews(reviewDocs[i].content, reviewDocs[i].conflicts)
     IN reviewDocs' = [reviewDocs EXCEPT ![i] =
                         [@ EXCEPT !.rev = IF kept = reviewDocs[i].content THEN @ ELSE @ + 1,
                                   !.content = kept, !.conflicts = {}]]
  /\ deletion' = Noted
  /\ reviewResult' = [NoReturn EXCEPT !.call = "onSyncReviewChange"]
  /\ UNCHANGED noteDoc
  /\ UNCHANGED nonReviewVars

\* Notes: created and modified times, modified not before created.
Stamps == 1..MaxStamp
NoteArgs == {n \in [created : Stamps, modified : Stamps] : n.modified >= n.created}

\* The resolver NoteStore.onSyncChange passes to resolveConflicts.
ResolveNoteMerged(a, b) ==
  IF a.created > b.created THEN a
  ELSE IF a.modified >= b.created THEN [a EXCEPT !.created = b.created] ELSE b

ResolveNote(a, b) ==
  IF a.created > b.created THEN a
  ELSE IF a.modified >= b.created THEN a ELSE b

RECURSIVE ReduceNotes(_, _)
ReduceNotes(winning, conflicting) ==
  IF conflicting = {} THEN winning
  ELSE LET doc == CHOOSE d \in conflicting : TRUE
       IN ReduceNotes(ResolveNote(doc, winning), conflicting \ {doc})

\* The pull writes a note revision: a new document or a successor of the
\* winning revision,
pullNote(note) ==
  /\ noteDoc' = [noteDoc EXCEPT !.live = TRUE, !.content = note]
  /\ reviewResult' = NoReturn
  /\ UNCHANGED <<reviewDocs, deletion>>
  /\ UNCHANGED nonReviewVars

\* or a live revision on another branch.
pullNoteConflict(note) ==
  /\ noteDoc.live
  /\ note # noteDoc.content
  /\ Cardinality(noteDoc.conflicts \cup {note}) <= MaxConflicts
  /\ noteDoc' = [noteDoc EXCEPT !.conflicts = @ \cup {note}]
  /\ reviewResult' = NoReturn
  /\ UNCHANGED <<reviewDocs, deletion>>
  /\ UNCHANGED nonReviewVars

\* NoteStore.onSyncChange for a pulled note revision that is not a
\* deletion and has conflicts.
NoteOnSyncChange ==
  /\ noteDoc.live
  /\ noteDoc.conflicts # {}
  /\ noteDoc' = [noteDoc EXCEPT !.content = ReduceNotes(noteDoc.content, noteDoc.conflicts),
                                !.conflicts = {}]
  /\ reviewResult' = [NoReturn EXCEPT !.call = "onSyncChange"]
  /\ UNCHANGED <<reviewDocs, deletion>>
  /\ UNCHANGED nonReviewVars

\* Whether the listener reports the deletion of a review document: there
\* is no current review, or its id is smaller than the deleted one's.
ReportsDeletionAlways(current, id) == TRUE

ReportsDeletion(current, id) == ~current.found \/ current.id < id

\* The change listener, review branch: _getReview, then 'review' with null
\* for a deletion of the most recent document, 'review' with the parsed
\* document of a change to the current document, or nothing.  The change
\* handled is any the feed may still hold for a document that was written:
\* a deletion, or a revision with some content.
OnReviewChange(i, deleted, doc) ==
  /\ reviewDocs[i].rev > 0
  /\ reviewResult' =
       IF deleted
       THEN IF ReportsDeletion(GetReviewRow, i)
            THEN [NoReturn EXCEPT !.call = "review", !.id = i, !.deleted = TRUE]
            ELSE [NoReturn EXCEPT !.call = "no event", !.id = i, !.deleted = TRUE]
       ELSE IF GetReviewRow.found /\ i = GetReviewRow.id
            THEN [NoReturn EXCEPT !.call = "review", !.id = i, !.null = FALSE,
                                  !.review = parseReview(doc)]
            ELSE [NoReturn EXCEPT !.call = "no event", !.id = i]
  /\ UNCHANGED <<reviewDocs, deletion, noteDoc>>
  /\ UNCHANGED nonReviewVars

\* SpecReviewEvents: reviews are put, pulled and deleted by a pull, and the
\* listener handles their changes as late as it may.
NextReviewEvents ==
  \/ \E review \in FirstReviews, now \in ReviewIds : putReview(review, now)
  \/ \E i \in ReviewIds, review \in FirstReviews : pullReview(i, review)
  \/ \E i \in ReviewIds : pullReviewDeleted(i)
  \/ \E i \in ReviewIds, deleted \in BOOLEAN, review \in FirstReviews :
       OnReviewChange(i, deleted, reviewToPut(review))

\* SpecPutReview: putReview calls one after the other, and getReview.
NextPutReview ==
  \/ \E review \in ReviewArgs, now \in ReviewIds : putReview(review, now)
  \/ getReview

\* SpecReviews: the review calls, deleteReview step by step, and the pull.
NextReviews ==
  \/ getReview
  \/ \E review \in FirstReviews, now \in ReviewIds : putReview(review, now)
  \/ callDeleteReview
  \/ DeleteAllDocs
  \/ DeleteBulkDocs
  \/ \E i \in ReviewIds, review \in FirstReviews : pullReview(i, review)
  \/ \E i \in ReviewIds, review \in FirstReviews : pullReviewConflict(i, review)
  \/ \E i \in ReviewIds : pullReviewDeleted(i)
  \/ \E i \in ReviewIds : onSyncReviewChange(i)

\* SpecReviewConflicts: pulled revisions of one review and their resolution.
NextReviewConflicts ==
  \/ \E review \in ReviewArgs : pullReview(1, review)
  \/ \E review \in ReviewArgs : pullReviewConflict(1, review)
  \/ onSyncReviewChange(1)

\* SpecResolve: pulled revisions of a review and of a note and their
\* resolution.
NextResolve ==
  \/ \E review \in FirstReviews : pullReview(1, review)
  \/ \E review \in FirstReviews : pullReviewConflict(1, review)
  \/ onSyncReviewChange(1)
  \/ \E note \in NoteArgs : pullNote(note)
  \/ \E note \in NoteArgs : pullNoteConflict(note)
  \/ NoteOnSyncChange

\* ---------------------------------------------------------------------
\* What the sync session replicates: push with the filter of pushOpts,
\* pull without a filter.  Document ids are sequences of pieces.
\* ---------------------------------------------------------------------

DocIds ==
  { <<"_design/">>, <<"_design/", "cards">>, <<"_design/", "overdueness">>,
    <<"_design">>, <<"card-", "_design/">>, <<"review-", "1">> }

\* A filter on the name without the slash.
pushFilterNoSlash(id) == ~(id[1] \in {"_design", "_design/"})

\* pushOpts.filter
pushFilter(id) == ~StartsWith(id, <<"_design/">>)

InitReplica ==
  replica = [local |-> {<<"_design/", "cards">>, <<"_design/", "overdueness">>},
             remote |-> {}, pushed |-> {}, pulled |-> {}]

\* The store, or the user of the database, writes a document.
localWrite(id) ==
  /\ replica' = [replica EXCEPT !.local = @ \cup {id}]
  /\ UNCHANGED nonReplicaVars

\* Another device writes a document to the remote database.
remoteWrite(id) ==
  /\ replica' = [replica EXCEPT !.remote = @ \cup {id}]
  /\ UNCHANGED nonReplicaVars

\* The push replication writes a local document the filter lets through.
push(id) ==
  /\ id \in replica.local
  /\ pushFilter(id)
  /\ replica' = [replica EXCEPT !.remote = @ \cup {id}, !.pushed = @ \cup {id}]
  /\ UNCHANGED nonReplicaVars

\* The pull replication writes a remote document.
pull(id) ==
  /\ id \in replica.remote
  /\ replica' = [replica EXCEPT !.local = @ \cup {id}, !.pulled = @ \cup {id}]
  /\ UNCHANGED nonReplicaVars

NextReplica ==
  \/ \E id \in DocIds : localWrite(id)
  \/ \E id \in DocIds : remoteWrite(id)
  \/ \E id \in DocIds : push(id)
  \/ \E id \in DocIds : pull(id)

\* ---------------------------------------------------------------------
\* putCard (update), field by field: two updates of one entity, each a
\* read-merge-write loop on the Card and then on the Progress document.
\* ---------------------------------------------------------------------

Writers == {1, 2}
CardFields == {"question", "answer"}
ProgressFields == {"level", "reviewed"}

\* What an update names: for each field nothing, the value the document
\* already has ("old") or another one ("new").
Updates ==
  [CardFields -> {"none", "new"}] \X [ProgressFields -> {"none", "old", "new"}]

InitFieldOp ==
  [pc |-> "unused", card |-> [f \in CardFields |-> "none"],
   progress |-> [f \in ProgressFields |-> "none"], rev |-> FALSE,
   base |-> 0, doc |-> [f \in {} |-> "none"], wrote |-> FALSE]

InitFields ==
  /\ fieldDocs = [card |-> [rev |-> 1, question |-> "old", answer |-> "old",
                            modified |-> 0],
                  progress |-> [rev |-> 1, level |-> "old", reviewed |-> "old"],
                  now |-> 0]
  /\ fieldOps = [u \in Writers |-> InitFieldOp]

\* The clock of the machine advances.
Tick ==
  /\ fieldDocs.now < MaxTicks
  /\ fieldDocs' = [fieldDocs EXCEPT !.now = @ + 1]
  /\ UNCHANGED <<fieldOps, nonFieldVars>>

\* putCard(card) with an _id: cardUpdate is the card without progress and
\* _id, so a _rev the caller supplied stays a key of it.
callPutCardUpdate(u, update, rev) ==
  /\ fieldOps[u].pc = "unused"
  /\ fieldOps' = [fieldOps EXCEPT ![u] = [@ EXCEPT !.pc = "cardGet",
                    !.card = update[1], !.progress = update[2], !.rev = rev]]
  /\ UNCHANGED <<fieldDocs, nonFieldVars>>

\* The diff function of _updateCard on the document just read: the
\* document, then the update's keys over it; without a key no write.
\* The upsert puts back the _rev of the document it read.
MergeCardWhole(doc, op, now) ==
  [rev |-> doc.rev,
   question |-> IF op.card["question"] = "none" THEN "old" ELSE op.card["question"],
   answer |-> IF op.card["answer"] = "none" THEN "old" ELSE op.card["answer"],
   modified |-> now]

MergeCard(doc, op, now) ==
  [rev |-> doc.rev,
   question |-> IF op.card["question"] = "none" THEN doc.question ELSE op.card["question"],
   answer |-> IF op.card["answer"] = "none" THEN doc.answer ELSE op.card["answer"],
   modified |-> now]

CardKeys(op) == {f \in CardFields : op.card[f] # "none"} \cup (IF op.rev THEN {"_rev"} ELSE {})

UpdateCardGet(u) ==
  /\ fieldOps[u].pc = "cardGet"
  /\ fieldOps' = [fieldOps EXCEPT ![u] =
       IF CardKeys(@) = {}
       THEN [@ EXCEPT !.pc = "progressGet"]
       ELSE [@ EXCEPT !.pc = "cardPut", !.base = fieldDocs.card.rev,
                      !.doc = MergeCard(fieldDocs.card, fieldOps[u], fieldDocs.now)]]
  /\ UNCHANGED <<fieldDocs, nonFieldVars>>

\* The put of the upsert: refused with a 409 when the document has
\* another revision than the one read, and the upsert starts over.
UpdateCardPut(u) ==
  /\ fieldOps[u].pc = "cardPut"
  /\ IF fieldDocs.card.rev = fieldOps[u].base
     THEN /\ fieldDocs' = [fieldDocs EXCEPT !.card = [fieldOps[u].doc EXCEPT !.rev = @ + 1]]
          /\ fieldOps' = [fieldOps EXCEPT ![u].pc = "progressGet", ![u].wrote = TRUE]
     ELSE /\ fieldOps' = [fieldOps EXCEPT ![u].pc = "cardGet"]
          /\ UNCHANGED fieldDocs
  /\ UNCHANGED nonFieldVars

\* The diff function of _updateProgress: reviewed and level are set when
\* the update has them and they differ; without a change no write.
MergeProgress(doc, op) ==
  [rev |-> doc.rev,
   level |-> IF op.progress["level"] = "none" THEN doc.level ELSE op.progress["level"],
   reviewed |-> IF op.progress["reviewed"] = "none" THEN doc.reviewed ELSE op.progress["reviewed"]]

UpdateProgressGet(u) ==
  /\ fieldOps[u].pc = "progressGet"
  /\ LET merged == MergeProgress(fieldDocs.progress, fieldOps[u])
     IN fieldOps' = [fieldOps EXCEPT ![u] =
          IF merged = fieldDocs.progress
          THEN [@ EXCEPT !.pc = "done"]
          ELSE [@ EXCEPT !.pc = "progressPut", !.base = fieldDocs.progress.rev,
                         !.doc = merged]]
  /\ UNCHANGED <<fieldDocs, nonFieldVars>>

UpdateProgressPut(u) ==
  /\ fieldOps[u].pc = "progressPut"
  /\ IF fieldDocs.progress.rev = fieldOps[u].base
     THEN /\ fieldDocs' = [fieldDocs EXCEPT !.progress = [fieldOps[u].doc EXCEPT !.rev = @ + 1]]
          /\ fieldOps' = [fieldOps EXCEPT ![u].pc = "done", ![u].wrote = TRUE]
     ELSE /\ fieldOps' = [fieldOps EXCEPT ![u].pc = "progressGet"]
          /\ UNCHANGED fieldDocs
  /\ UNCHANGED nonFieldVars

\* The fields an update names.
Names(op) ==
  {f \in CardFields : op.card[f] # "none"} \cup {f \in ProgressFields : op.progress[f] # "none"}

\* Two updates of the entity naming disjoint fields, with or without a
\* _rev, one after the other or overlapping in any way.
NextFields ==
  \/ Tick
  \/ \E u \in Writers, update \in Updates, rev \in BOOLEAN :
       /\ \A v \in Writers \ {u} :
            Names(fieldOps[v]) \cap Names([card |-> update[1], progress |-> update[2]]) = {}
       /\ callPutCardUpdate(u, update, rev)
  \/ \E u \in Writers : UpdateCardGet(u)
  \/ \E u \in Writers : UpdateCardPut(u)
  \/ \E u \in Writers : UpdateProgressGet(u)
  \/ \E u \in Writers : UpdateProgressPut(u)

Init ==
  /\ InitSync /\ InitStore /\ InitIds /\ InitValues /\ InitView /\ InitReviews
  /\ InitReplica /\ InitFields /\ InitReviewPut

SpecReplica == Init /\ [][NextReplica]_vars
SpecFields == Init /\ [][NextFields]_vars

SpecPutReview == Init /\ [][NextPutReview]_vars
SpecReviews == Init /\ [][NextReviews]_vars
SpecReviewEvents == Init /\ [][NextReviewEvents]_vars
SpecReviewConflicts == Init /\ [][NextReviewConflicts]_vars
SpecResolve == Init /\ [][NextResolve]_vars

SpecReviewTime == Init /\ [][NextReviewTime]_vars

SpecRanking == Init /\ [][NextRanking]_vars

SpecListing == Init /\ [][NextListing]_vars

SpecReviewed == Init /\ [][NextReviewed]_vars

SpecValues == Init /\ [][NextValues]_vars

NextIds == generateCardId

SpecIds == Init /\ [][NextIds]_vars


\* Invocations are numbered in the order they are made.
NextOp(o) == ops[o].pc = "unused" /\ \A p \in 1..(o - 1) : ops[p].pc # "unused"

Begin(o, op, i, cardKeys, progressChange) ==
  [InitOp EXCEPT !.op = op, !.pc = IF op = "create" THEN "put" ELSE "get",
                 !.id = i, !.cardKeys = cardKeys,
                 !.progressChange = progressChange, !.watched = changesEmitter]

\* The document after `kind` in an update or a delete: the card, then the
\* progress, then the invocation resolves.
Advance(rec) ==
  IF rec.kind = "card"
  THEN [rec EXCEPT !.kind = "progress", !.pc = "get"]
  ELSE [rec EXCEPT !.pc = "resolved"]

\* --------------------------------------------------- store: putCard (new)
\* putCard without _id: _putNewCard up to the first db.put, with the id
\* generateCardId returned.
putNewCard(o, i) ==
  /\ NextOp(o)
  /\ ops' = [ops EXCEPT ![o] = Begin(o, "create", i, TRUE, TRUE)]
  /\ emitted' = 0
  /\ deletedEmitted' = 0
  /\ UNCHANGED <<docs, changesEmitter, feed, handlers, returnedCards>>
  /\ UNCHANGED nonStoreVars

\* tryPutNewCard: db.put of the card settles. On a 409 the put is tried
\* again with another generated id.
NewCardPut(o) ==
  /\ ops[o].op = "create" /\ ops[o].pc = "put" /\ ops[o].kind = "card"
  /\ IF PutNewOk("card", ops[o].id)
     THEN /\ Write("card", ops[o].id, FALSE)
          /\ ops' = [ops EXCEPT ![o] =
                       [@ EXCEPT !.kind = "progress",
                                 !.rev = docs["card"][ops[o].id].rev + 1]]
     ELSE /\ NoWrite
          /\ \E n \in Ids \ {ops[o].id} :
               ops' = [ops EXCEPT ![o] = [@ EXCEPT !.id = n, !.retried = TRUE]]
  /\ UNCHANGED <<changesEmitter, handlers, returnedCards, emitted, deletedEmitted>>
  /\ UNCHANGED nonStoreVars

\* tryPutNewCard: db.put of the progress document settles: written, or
\* refused because a live progress document has the id.
NewProgressPut(o) ==
  /\ ops[o].op = "create" /\ ops[o].pc = "put" /\ ops[o].kind = "progress"
  /\ IF PutNewOk("progress", ops[o].id)
     THEN /\ Write("progress", ops[o].id, FALSE)
          /\ ops' = [ops EXCEPT ![o].pc = "resolved"]
     ELSE /\ NoWrite
          /\ ops' = [ops EXCEPT ![o] =
                       [@ EXCEPT !.pc = "rollback", !.error = "conflict"]]
  /\ UNCHANGED <<changesEmitter, handlers, returnedCards, emitted, deletedEmitted>>
  /\ UNCHANGED nonStoreVars

\* tryPutNewCard: db.put of the progress document fails in the storage
\* layer (quota, aborted transaction).
NewProgressPutFail(o) ==
  /\ ops[o].op = "create" /\ ops[o].pc = "put" /\ ops[o].kind = "progress"
  /\ NoWrite
  /\ ops' = [ops EXCEPT ![o] =
               [@ EXCEPT !.pc = "rollback", !.error = "put_failed"]]
  /\ UNCHANGED <<changesEmitter, handlers, returnedCards, emitted, deletedEmitted>>
  /\ UNCHANGED nonStoreVars

\* tryPutNewCard's catch: db.remove of the card at putCardResult.rev, then
\* `throw err`. A refused remove rejects the await, and putCard fails with
\* the error of the remove: a 409 ("conflict") when the card is live at
\* another revision.
RollbackRemove(o) ==
  /\ ops[o].pc = "rollback"
  /\ IF PutRevOk("card", ops[o].id, ops[o].rev)
     THEN /\ Write("card", ops[o].id, TRUE)
          /\ ops' = [ops EXCEPT ![o].pc = "rejected"]
     ELSE /\ NoWrite
          /\ ops' = [ops EXCEPT ![o] =
                       [@ EXCEPT !.pc = "rejected",
                                 !.error = IF Live(docs["card"][ops[o].id])
                                           THEN "conflict"
                                           ELSE "remove_failed"]]
  /\ UNCHANGED <<changesEmitter, handlers, returnedCards, emitted, deletedEmitted>>
  /\ UNCHANGED nonStoreVars

\* ------------------------------------------------ store: putCard (update)
\* putCard with _id, up to the db.get of _updateCard's upsert. cardKeys:
\* the update has keys besides _id and progress; progressChange: its
\* progress differs from the stored one.
putCard(o, i, cardKeys, progressChange) ==
  /\ NextOp(o)
  /\ ops' = [ops EXCEPT ![o] = Begin(o, "update", i, cardKeys, progressChange)]
  /\ emitted' = 0
  /\ deletedEmitted' = 0
  /\ UNCHANGED <<docs, changesEmitter, feed, handlers, returnedCards>>
  /\ UNCHANGED nonStoreVars

\* Whether the diff function of the running upsert returns a document.
HasChange(rec) == IF rec.kind = "card" THEN rec.cardKeys ELSE rec.progressChange

\* An upsert whose diff function takes a missing document for an empty one
\* and writes it.
UpsertGetNoMissingCheck(o) ==
  /\ ops[o].op = "update" /\ ops[o].pc = "get"
  /\ LET g == Get(ops[o].kind, ops[o].id) IN
       /\ ops' = [ops EXCEPT ![o] =
                    IF g.status = "ok" /\ ~HasChange(@)
                    THEN Advance(@)
                    ELSE IF g.status = "ok"
                    THEN [@ EXCEPT !.pc = "put", !.rev = g.rev]
                    ELSE Advance(@)]
       /\ IF g.status = "ok"
          THEN NoWrite
          ELSE Write(ops[o].kind, ops[o].id, FALSE)
  /\ UNCHANGED <<changesEmitter, handlers, returnedCards, emitted, deletedEmitted>>
  /\ UNCHANGED nonStoreVars

\* _updateCard / _updateProgress: the db.get of upsert settles and the diff
\* function runs: 404 for a missing document, nothing to write, or a
\* document to put at the revision read.
UpsertGet(o) ==
  /\ ops[o].op = "update" /\ ops[o].pc = "get"
  /\ LET g == Get(ops[o].kind, ops[o].id) IN
       ops' = [ops EXCEPT ![o] =
                 IF g.status # "ok"
                 THEN [@ EXCEPT !.pc = "rejected", !.error = "not_found"]
                 ELSE IF ~HasChange(@)
                 THEN Advance(@)
                 ELSE [@ EXCEPT !.pc = "put", !.rev = g.rev]]
  /\ UNCHANGED <<docs, changesEmitter, feed, handlers, returnedCards, emitted, deletedEmitted>>
  /\ UNCHANGED nonStoreVars

\* The db.put of upsert settles: written, or a 409 and upsert starts over.
UpsertPut(o) ==
  /\ ops[o].op = "update" /\ ops[o].pc = "put"
  /\ IF PutRevOk(ops[o].kind, ops[o].id, ops[o].rev)
     THEN /\ Write(ops[o].kind, ops[o].id, FALSE)
          /\ ops' = [ops EXCEPT ![o] = Advance(@)]
     ELSE /\ NoWrite
          /\ ops' = [ops EXCEPT ![o].pc = "get"]
  /\ UNCHANGED <<changesEmitter, handlers, returnedCards, emitted, deletedEmitted>>
  /\ UNCHANGED nonStoreVars

\* ---------------------------------------------------- store: deleteCard
\* deleteCard, up to the db.get of the first stubbornDelete.
deleteCard(o, i) ==
  /\ NextOp(o)
  /\ ops' = [ops EXCEPT ![o] = Begin(o, "delete", i, FALSE, FALSE)]
  /\ emitted' = 0
  /\ deletedEmitted' = 0
  /\ UNCHANGED <<docs, changesEmitter, feed, handlers, returnedCards>>
  /\ UNCHANGED nonStoreVars

\* A read of the current revision that fails on an absent document.
StubbornGetStrict(o) ==
  /\ ops[o].op = "delete" /\ ops[o].pc = "get"
  /\ LET g == Get(ops[o].kind, ops[o].id) IN
       ops' = [ops EXCEPT ![o] =
                 IF g.status = "ok"
                 THEN [@ EXCEPT !.pc = "remove", !.rev = g.rev]
                 ELSE [@ EXCEPT !.pc = "rejected", !.error = "not_found"]]
  /\ UNCHANGED <<docs, changesEmitter, feed, handlers, returnedCards, emitted, deletedEmitted>>
  /\ UNCHANGED nonStoreVars

\* stubbornDelete reads the current revision; an absent document is not an
\* error.
StubbornGet(o) ==
  /\ ops[o].op = "delete" /\ ops[o].pc = "get"
  /\ LET g == Get(ops[o].kind, ops[o].id) IN
       ops' = [ops EXCEPT ![o] =
                 IF g.status = "ok"
                 THEN [@ EXCEPT !.pc = "remove", !.rev = g.rev]
                 ELSE Advance(@)]
  /\ UNCHANGED <<docs, changesEmitter, feed, handlers, returnedCards, emitted, deletedEmitted>>
  /\ UNCHANGED nonStoreVars

\* stubbornDelete removes the revision it read; on a 409 it starts over.
StubbornRemove(o) ==
  /\ ops[o].op = "delete" /\ ops[o].pc = "remove"
  /\ IF PutRevOk(ops[o].kind, ops[o].id, ops[o].rev)
     THEN /\ Write(ops[o].kind, ops[o].id, TRUE)
          /\ ops' = [ops EXCEPT ![o] = Advance(@)]
     ELSE /\ NoWrite
          /\ ops' = [ops EXCEPT ![o].pc = "get"]
  /\ UNCHANGED <<changesEmitter, handlers, returnedCards, emitted, deletedEmitted>>
  /\ UNCHANGED nonStoreVars

\* ------------------------------------------------- store: replication
\* The live sync session pulls a revision of document k of card i that the
\* other side wrote from a revision where the document was live. The
\* document is live afterwards, also when the local side has deleted it
\* since: a live leaf wins over a deleted one, and onSyncChange resolves
\* the conflicts of review documents only.
pullUpdate(o, k, i) ==
  /\ NextOp(o)
  /\ docs[k][i].rev > 0
  /\ Write(k, i, FALSE)
  /\ ops' = [ops EXCEPT ![o] =
               [Begin(o, "pull", i, FALSE, FALSE) EXCEPT !.kind = k,
                                                         !.pc = "resolved"]]
  /\ UNCHANGED <<changesEmitter, handlers, returnedCards, emitted, deletedEmitted>>
  /\ UNCHANGED nonStoreVars

\* ------------------------------------------------- store: change events
\* The changes getter, first access: the emitter is created and the live
\* feed is listened to from now on.
changes ==
  /\ ~changesEmitter
  /\ changesEmitter' = TRUE
  /\ UNCHANGED <<docs, ops, feed, handlers, returnedCards, emitted, deletedEmitted>>
  /\ UNCHANGED nonStoreVars

alreadyReturnedCard(ch) ==
  /\ returnedCards[ch.id].defined
  /\ IF ch.kind = "card"
     THEN returnedCards[ch.id].cardRev = ch.rev
     ELSE returnedCards[ch.id].progressRev = ch.rev

\* Record the pair of revisions and emit 'card'; a progressRev of 0 is null.
EmitCard(i, cardRev, progressRev) ==
  /\ returnedCards' = [returnedCards EXCEPT ![i] =
                         [defined |-> TRUE, cardRev |-> cardRev,
                          progressRev |-> progressRev]]
  /\ emitted' = emitted + 1

\* The 'change' listener is called with the next change. For a deleted card
\* it runs to its end; for a deleted progress document it returns; otherwise
\* it asks for the other document and waits.
OnChange ==
  /\ feed # <<>>
  /\ feed' = Tail(feed)
  /\ LET ch == Head(feed) IN
       IF ch.deleted
       THEN /\ handlers' = handlers
            /\ IF ch.kind = "card" /\ ~alreadyReturnedCard(ch)
               THEN EmitCard(ch.id, ch.rev, 0) /\ deletedEmitted' = deletedEmitted + 1
               ELSE UNCHANGED <<returnedCards, emitted, deletedEmitted>>
       ELSE /\ handlers' = handlers \cup
                             {[change |-> ch, pc |-> "get",
                               other |-> [status |-> "none", rev |-> 0]]}
            /\ UNCHANGED <<returnedCards, emitted, deletedEmitted>>
  /\ UNCHANGED <<docs, ops, changesEmitter>>
  /\ UNCHANGED nonStoreVars

\* The db.get of the other document reads the database.
SiblingGet(h) ==
  /\ h \in handlers /\ h.pc = "get"
  /\ handlers' = (handlers \ {h}) \cup
                   {[h EXCEPT !.pc = "resume",
                              !.other = Get(Sibling(h.change.kind), h.change.id)]}
  /\ UNCHANGED <<docs, ops, changesEmitter, feed, returnedCards, emitted, deletedEmitted>>
  /\ UNCHANGED nonStoreVars

\* Whether the listener gives up once its db.get has settled: a card whose
\* progress document is missing (not deleted), a progress document whose
\* card is deleted (return) or missing (throw).
GivesUpOnMissing(h) == h.other.status = "missing"

GivesUpNever(h) ==
  IF h.change.kind = "card"
  THEN FALSE
  ELSE h.other.status # "ok"

GivesUp(h) ==
  IF h.change.kind = "card"
  THEN h.other.status = "missing"
  ELSE h.other.status # "ok"

\* The listener continues after its db.get.
ResumeChange(h) ==
  /\ h \in handlers /\ h.pc = "resume"
  /\ handlers' = handlers \ {h}
  /\ IF GivesUp(h) \/ alreadyReturnedCard(h.change)
     THEN UNCHANGED <<returnedCards, emitted, deletedEmitted>>
     ELSE /\ IF h.change.kind = "card"
             THEN EmitCard(h.change.id, h.change.rev, h.other.rev)
             ELSE EmitCard(h.change.id, h.other.rev, h.change.rev)
          /\ UNCHANGED deletedEmitted
  /\ UNCHANGED <<docs, ops, changesEmitter, feed>>
  /\ UNCHANGED nonStoreVars

\* ------------------------------------------------ store: specifications
InFlight(o) == ops[o].pc \notin {"unused", "resolved", "rejected"}

\* No invocation is running and every reported change has been handled.
Quiescent ==
  /\ \A o \in OpIds : ~InFlight(o)
  /\ feed = <<>>
  /\ handlers = {}

\* The steps of the invocations already made.
OpSteps ==
  \/ \E o \in OpIds : NewCardPut(o)
  \/ \E o \in OpIds : NewProgressPut(o)
  \/ \E o \in OpIds : NewProgressPutFail(o)
  \/ \E o \in OpIds : RollbackRemove(o)
  \/ \E o \in OpIds : UpsertGet(o)
  \/ \E o \in OpIds : UpsertPut(o)
  \/ \E o \in OpIds : StubbornGet(o)
  \/ \E o \in OpIds : StubbornRemove(o)

\* SpecCards: putCard and deleteCard invocations that overlap in every way,
\* without a listener on the change feed.
NextCards ==
  \/ \E o \in OpIds, i \in Ids : putNewCard(o, i)
  \/ \E o \in OpIds, i \in Ids, ck \in BOOLEAN, pg \in BOOLEAN : putCard(o, i, ck, pg)
  \/ \E o \in OpIds, i \in Ids : deleteCard(o, i)
  \/ OpSteps

SpecCards == Init /\ [][NextCards]_vars

\* generateCardId gives a create an id no document has had.
FreshId(i) == \A k \in Kinds : docs[k][i].rev = 0

\* No invocation is running.
Idle == \A p \in OpIds : ~InFlight(p)

\* The id of a created card is known once its putCard has returned.
Creating == \E p \in OpIds : InFlight(p) /\ ops[p].op = "create"

\* SpecOverlap: creates one at a time with fresh ids; updates and deletes
\* of ids the caller knows, overlapping in every way.
NextOverlap ==
  \/ \E o \in OpIds, i \in Ids :
       Idle /\ FreshId(i) /\ putNewCard(o, i)
  \/ \E o \in OpIds, i \in Ids, ck \in BOOLEAN, pg \in BOOLEAN :
       ~Creating /\ putCard(o, i, ck, pg)
  \/ \E o \in OpIds, i \in Ids : ~Creating /\ deleteCard(o, i)
  \/ OpSteps

SpecOverlap == Init /\ [][NextOverlap]_vars

\* SpecReplicated: the same, and revisions pulled from the sync server at
\* any moment.
NextReplicated ==
  \/ NextOverlap
  \/ \E o \in OpIds, k \in Kinds, i \in Ids : pullUpdate(o, k, i)

SpecReplicated == Init /\ [][NextReplicated]_vars

\* SpecEntities: one caller who awaits each call before the next: creates
\* with fresh ids, updates and deletes of any id.
NextEntities ==
  \/ \E o \in OpIds, i \in Ids : Idle /\ FreshId(i) /\ putNewCard(o, i)
  \/ \E o \in OpIds, i \in Ids, ck \in BOOLEAN, pg \in BOOLEAN :
       Idle /\ putCard(o, i, ck, pg)
  \/ \E o \in OpIds, i \in Ids : Idle /\ deleteCard(o, i)
  \/ OpSteps

SpecEntities == Init /\ [][NextEntities]_vars

\* SpecCollisions: creates that overlap and are given ids that may be
\* taken, and deletes of ids the caller knows.
NextCollisions ==
  \/ \E o \in OpIds, i \in Ids : putNewCard(o, i)
  \/ \E o \in OpIds, i \in Ids : ~Creating /\ deleteCard(o, i)
  \/ \E o \in OpIds : NewCardPut(o)
  \/ \E o \in OpIds : NewProgressPut(o)
  \/ \E o \in OpIds : NewProgressPutFail(o)
  \/ \E o \in OpIds : RollbackRemove(o)
  \/ \E o \in OpIds : StubbornGet(o)
  \/ \E o \in OpIds : StubbornRemove(o)

SpecCollisions == Init /\ [][NextCollisions]_vars

\* SpecChanges: invocations made one at a time, each once the changes of
\* the one before have been handled, with a listener on the change feed.
NextChanges ==
  \/ changes
  \/ Quiescent /\ \E o \in OpIds, i \in Ids : putNewCard(o, i)
  \/ Quiescent /\ \E o \in OpIds, i \in Ids, ck \in BOOLEAN, pg \in BOOLEAN :
                    putCard(o, i, ck, pg)
  \/ Quiescent /\ \E o \in OpIds, i \in Ids : deleteCard(o, i)
  \/ OpSteps
  \/ OnChange
  \/ \E h \in handlers : SiblingGet(h)
  \/ \E h \in handlers : ResumeChange(h)

SpecChanges == Init /\ [][NextChanges]_vars

\* SpecCardChanges: the changes of one entity that is created, updated and
\* deleted, with the listener as late as it may be.
NextCardChanges ==
  \/ changes
  \/ Quiescent /\ \E o \in OpIds : putNewCard(o, 1)
  \/ Quiescent /\ \E o \in OpIds, ck \in BOOLEAN, pg \in BOOLEAN : putCard(o, 1, ck, pg)
  \/ Quiescent /\ \E o \in OpIds : deleteCard(o, 1)
  \/ OpSteps
  \/ OnChange
  \/ \E h \in handlers : SiblingGet(h)
  \/ \E h \in handlers : ResumeChange(h)

SpecCardChanges == Init /\ [][NextCardChanges]_vars

\* SpecDeleteEvents: one entity is created, its progress updated, and it is
\* deleted, one call after the other with the feed listened to, while the
\* listener still has earlier changes to handle.
NextDeleteEvents ==
  \/ changes
  \/ Idle /\ changesEmitter /\ FreshId(1) /\ \E o \in OpIds : putNewCard(o, 1)
  \/ Idle /\ changesEmitter /\ \E o \in OpIds : putCard(o, 1, FALSE, TRUE)
  \/ Idle /\ Live(docs["card"][1]) /\ Live(docs["progress"][1])
          /\ \E o \in OpIds : deleteCard(o, 1)
  \/ OpSteps
  \/ OnChange
  \/ \E h \in handlers : SiblingGet(h)
  \/ \E h \in handlers : ResumeChange(h)

SpecDeleteEvents == Init /\ [][NextDeleteEvents]_vars

\* The steps of one card invocation, whichever the outcome of a step.
Step(o) ==
  \/ NewCardPut(o) \/ NewProgressPut(o) \/ NewProgressPutFail(o) \/ RollbackRemove(o)
  \/ UpsertGet(o) \/ UpsertPut(o) \/ StubbornGet(o) \/ StubbornRemove(o)

\* The review used where its content does not matter.
AReview == CHOOSE r \in FirstReviews : r.completed = 0

\* No review call or pull has been made.
ReviewsUntouched ==
  /\ reviewPut.pc = "unused" /\ deletion.pc = "unused"
  /\ \A i \in ReviewIds : reviewDocs[i].rev = 0

\* Every card invocation there can be has been made and has returned: the
\* create of the entity, a create after a refused put, and deletes.
CardsReturned ==
  /\ \A o \in OpIds : ops[o].pc = "resolved"
  /\ \A o \in OpIds : o > 1 => ops[o].op = IF o = 2 THEN "create" ELSE "delete"
  /\ ops[2].retried

\* SpecSettle: one entity is created and then updated and deleted by calls
\* that overlap in every way, and one create is given the id of the
\* entity; once the card calls have returned, a putReview and deleteReview
\* calls run step by step while the sync session pulls revisions of one
\* review. The card calls and the review calls work on different documents.
NextSettle ==
  \/ ReviewsUntouched /\ putNewCard(1, 1)
  \/ ReviewsUntouched /\ ~Creating /\ putNewCard(2, 1)
  \/ ReviewsUntouched /\ \E o \in OpIds : o > 1 /\ putCard(o, 1, TRUE, TRUE)
  \/ ReviewsUntouched /\ \E o \in OpIds : o > 1 /\ deleteCard(o, 1)
  \/ ReviewsUntouched /\ \E o \in OpIds : NewCardPut(o)
  \/ ReviewsUntouched /\ \E o \in OpIds : NewProgressPut(o)
  \/ ReviewsUntouched /\ \E o \in OpIds : NewProgressPutFail(o)
  \/ ReviewsUntouched /\ \E o \in OpIds : RollbackRemove(o)
  \/ ReviewsUntouched /\ \E o \in OpIds : UpsertGet(o)
  \/ ReviewsUntouched /\ \E o \in OpIds : UpsertPut(o)
  \/ ReviewsUntouched /\ \E o \in OpIds : StubbornGet(o)
  \/ ReviewsUntouched /\ \E o \in OpIds : StubbornRemove(o)
  \/ CardsReturned /\ callPutReview(AReview)
  \/ CardsReturned /\ \E now \in ReviewIds : PutReviewGetReview(now)
  \/ CardsReturned /\ PutReviewUpsertGet
  \/ CardsReturned /\ PutReviewUpsertPut
  \/ CardsReturned /\ callDeleteReview
  \/ CardsReturned /\ DeleteAllDocs
  \/ CardsReturned /\ DeleteBulkDocs
  \/ CardsReturned /\ pullReview(1, AReview)

SpecSettle == Init /\ [][NextSettle]_vars

\* The event loop runs the continuation of every request that has settled,
\* and every request settles.
SpecSettleFair ==
  /\ SpecSettle
  /\ \A o \in OpIds : WF_vars(Step(o))
  /\ WF_vars(\E now \in ReviewIds : PutReviewGetReview(now))
  /\ WF_vars(PutReviewUpsertGet)
  /\ WF_vars(PutReviewUpsertPut)
  /\ WF_vars(DeleteAllDocs)
  /\ WF_vars(DeleteBulkDocs)

\* ---------------------------------------------- sync: specifications
\* SpecSync: the lifecycle of two overlapping setSyncServer calls with every
\* kind of argument. The databases report one sequence number here;
\* SpecProgress varies them.
LifecycleOptions == {NoOptions, Opts({"onProgress", "onIdle", "onActive", "onError"})}
LifecycleSeqs == {[form |-> "number", n |-> 1]}

Lifecycle(ids, targets, options) ==
  \/ ResolveInit
  \/ \E c \in ids, t \in targets, o \in options : setSyncServer(c, t, o)
  \/ \E c \in ids : AfterInit(c)
  \/ \E c \in ids, tok \in LifecycleSeqs : LocalInfoOk(c, tok)
  \/ \E c \in ids : LocalInfoFail(c)
  \/ \E c \in ids, tok \in LifecycleSeqs : RemoteInfoOk(c, tok)
  \/ \E c \in ids : RemoteInfoFail(c)
  \/ \E c \in ids : Return(c)
  \/ \E c \in ids, tok \in LifecycleSeqs : ChangeEvent(c, tok)
  \/ \E c \in ids : PausedEvent(c)
  \/ \E c \in ids : ActiveEvent(c)
  \/ \E c \in ids : ErrorEvent(c)
  \/ \E c \in ids : DeniedEvent(c)
  \/ RunImmediate

NextSync == Lifecycle(1..MaxOverlap, Targets, LifecycleOptions)

SpecSync == Init /\ [][NextSync]_vars

\* SpecSync3: three calls, with one argument of each accepted kind.
Targets3 == {NullTarget, Str(HttpPrefix \o <<"a">>), PouchTarget}

NextSync3 == Lifecycle(CallIds, Targets3, LifecycleOptions)

SpecSync3 == Init /\ [][NextSync3]_vars

\* SpecProgress: accepted arguments, every choice of callbacks and every
\* combination of sequence numbers.
ProgressTargets == {Str(HttpsPrefix \o <<"b">>), PouchTarget}

ProgressCalls == 1..MaxProgressCalls

NextProgress ==
  \/ ResolveInit
  \/ \E c \in ProgressCalls, t \in ProgressTargets, o \in OptionChoices :
       setSyncServer(c, t, o)
  \/ \E c \in ProgressCalls : AfterInit(c)
  \/ \E c \in ProgressCalls, tok \in UpdateSeqTokens : LocalInfoOk(c, tok)
  \/ \E c \in ProgressCalls, tok \in UpdateSeqTokens : RemoteInfoOk(c, tok)
  \/ \E c \in ProgressCalls : Return(c)
  \/ \E c \in ProgressCalls, tok \in LastSeqTokens : ChangeEvent(c, tok)
  \/ \E c \in ProgressCalls : PausedEvent(c)
  \/ \E c \in ProgressCalls : ActiveEvent(c)

SpecProgress == Init /\ [][NextProgress]_vars

\* SpecValidation: overlapping calls whose argument is empty, a server or
\* invalid in each of the ways the two validations reject.
ValidationTargets ==
  { NullTarget, Str(HttpPrefix \o <<"a">>),
    Str(<<"i", "r", "c", ":", "/", "/", "x">>),
    Str(<<" ", "f", "t", "p", ":", "/", "/", "x", " ">>), DateTarget }

NextValidation == Lifecycle(1..MaxOverlap, ValidationTargets, LifecycleOptions)

SpecValidation == Init /\ [][NextValidation]_vars

\* The event loop runs every queued microtask and every setImmediate task.
SpecValidationFair ==
  /\ SpecValidation
  /\ WF_vars(\E c \in 1..MaxOverlap : AfterInit(c))
  /\ WF_vars(RunImmediate)

\* ------------------------------------------------------- sync: claims
LiveSessions == {c \in CallIds : sessions[c].started /\ ~sessions[c].cancelled}

\* C1: at every moment at most one sync session is live, and a live session
\* is the one this.remoteSync holds, through which it can be cancelled.
C1_AtMostOneLiveSession ==
  /\ Cardinality(LiveSessions) <= 1
  /\ \A c \in LiveSessions : remoteSync = c

\* C2: no callback is invoked for an event of a session that a later
\* setSyncServer call has cancelled.
C2_NoCallbackFromSupersededSession ==
  lastCb.via = "session" => ~lastCb.cancelled

\* C3: from the return of an empty-target call until the next call with a
\* non-empty target is made, getSyncServer() is undefined and no session is
\* live.
C3_ClearedStaysCleared ==
  cleared => (~remoteDb.defined /\ remoteSync = 0 /\ LiveSessions = {})

\* The arguments C4 and C5 call invalid: neither a string, null, undefined
\* nor a database handle, or a string that is non-empty once trimmed and
\* starts with neither http:// nor https://.
InvalidTarget(t) ==
  \/ ~(t.type \in {"string", "null", "undefined"})
     /\ ~(t.type = "object" /\ t.ctor = "PouchDB")
  \/ /\ t.type = "string"
     /\ Len(Trim(t.chars)) > 0
     /\ ~StartsWith(Trim(t.chars), HttpPrefix)
     /\ ~StartsWith(Trim(t.chars), HttpsPrefix)

\* C4: a setSyncServer call with an invalid argument is rejected and leaves
\* the remote, the session in remoteSync and every session as they were, and
\* every started session passes or fails the identity guard as before.
C4_InvalidTargetChangesNothing ==
  [][(lastArg'.call # 0 /\ lastArg' # lastArg /\ InvalidTarget(lastArg'.target))
       => /\ calls'[lastArg'.call].pc = "rejected"
          /\ remoteDb' = remoteDb
          /\ remoteSync' = remoteSync
          /\ sessions' = sessions
          /\ \A s \in CallIds :
               sessions[s].started => (FromCurrentRemote(s)' = FromCurrentRemote(s))]_vars

C4_Witness ==
  /\ lastArg.call # 0
  /\ InvalidTarget(lastArg.target)
  /\ calls[lastArg.call].pc = "rejected"
  /\ remoteSync # 0
  /\ remoteSync \in LiveSessions
  /\ FromCurrentRemote(remoteSync)

RejectedByValidation(c) ==
  calls[c].pc = "rejected" /\ calls[c].error = "bad_request"

Pending(c) == Cardinality({i \in 1..Len(immediates) : immediates[i].call = c})

\* C5: for a call that failed validation and supplied onError, onError is
\* invoked exactly once (the queued task and the invocations add up to one,
\* the call has no session that could invoke it, and the task does run), and
\* never from inside setSyncServer.
C5_ValidationErrorReportedOnceAsync ==
  /\ [](\A c \in CallIds :
          (RejectedByValidation(c) /\ HasCallback(calls[c].options, "onError"))
            => (errCount[c] + Pending(c) = 1 /\ ~sessions[c].started))
  /\ [](lastCb.kind = "onError" => lastCb.during = 0)
  /\ \A c \in CallIds :
       (RejectedByValidation(c) /\ HasCallback(calls[c].options, "onError"))
         ~> (errCount[c] = 1 /\ Pending(c) = 0)

C5_Witness ==
  \E c \in CallIds :
    /\ RejectedByValidation(c)
    /\ lastCb.kind = "onError" /\ lastCb.call = c /\ lastCb.via = "immediate"
    /\ errCount[c] = 1

\* C6: every non-null value passed to onProgress lies in [0, 1].
C6_ProgressInUnitInterval ==
  (lastCb.kind = "onProgress" /\ ~lastCb.progress.isNull)
    => /\ lastCb.progress.den > 0
       /\ 0 <= lastCb.progress.num
       /\ lastCb.progress.num <= lastCb.progress.den

\* C7: once a session has reported 'paused', or a change with equal bounds
\* or a current sequence below the lower bound was seen, every later
\* onProgress of that session carries null.
C7_IndeterminateOncePaused ==
  (lastCb.kind = "onProgress" /\ lastCb.indeterminate) => lastCb.progress.isNull

\* ------------------------------------------------------ store: claims
\* The invocation made last.
LastOp(o) == ops[o].pc # "unused" /\ \A p \in (o + 1)..MaxOps : ops[p].pc = "unused"

\* A putCard that wrote both documents of its card, with the feed listened to.
WroteBoth(o) ==
  /\ ops[o].pc = "resolved"
  /\ ops[o].op \in {"create", "update"}
  /\ ops[o].cardKeys /\ ops[o].progressChange
  /\ ops[o].watched

\* C8: a putCard that changes both the card and the progress document
\* causes exactly one 'card' event, however its two writes interleave with
\* the two change handlers and their reads of the other document.
C8_OneEventPerDualWrite ==
  \A o \in OpIds : (Quiescent /\ LastOp(o) /\ WroteBoth(o)) => emitted = 1

\* C9: when no create and no delete is running, every live card document has
\* a live progress document with its id.
C9_LiveCardHasLiveProgress ==
  (\A o \in OpIds : InFlight(o) => ops[o].op = "update")
    => \A i \in Ids : Live(docs["card"][i]) => Live(docs["progress"][i])

\* C10: when a create whose progress write failed returns its failure, the
\* card document it wrote is not live.
C10_FailedCreateRemovesCard ==
  [][\A o \in OpIds :
       (ops[o].pc = "rollback" /\ ops'[o].pc = "rejected")
         => ~Live(docs'["card"][ops[o].id])]_vars

\* C11: no putCard or deleteCard invocation fails with an optimistic-write
\* conflict (409).
C11_NoConflictReachesCaller ==
  \A o \in OpIds : ops[o].pc = "rejected" => ops[o].error # "conflict"

\* C12 as amended: while every timestamp used has 7 or 8 base-36 digits
\* (26 January 2016 to 2105), each id generateCardId returns is greater,
\* as a string, than every id it returned before, also for calls in the
\* same millisecond and with the clock stalled or set back.
C12_IdsAscendInRange ==
  inRange => \A i \in 1..Len(issued), j \in 1..Len(issued) :
               i < j => StrLess(issued[i], issued[j])

\* Two calls the clock did not advance for, the first with the greater
\* random part.
C12_Witness ==
  /\ inRange /\ bumped
  /\ Len(issued) = MaxGenerated
  /\ StrLess(SliceLast(issued[2], 3), SliceLast(issued[1], 3))

\* C12: each id generateCardId returns is greater, as a string, than every
\* id it returned before, for any sequence of calls and any clock.
C12_IdsAscend ==
  \A i \in 1..Len(issued), j \in 1..Len(issued) : i < j => StrLess(issued[i], issued[j])

\* C13: when deleteCard(id) returns, neither the card nor the progress
\* document of id is live, however the delete interleaves with local and
\* replicated updates of the same card.
C13_DeletedWhenDeleteReturns ==
  [][\A o \in OpIds :
       (ops[o].op = "delete" /\ ops[o].pc # "resolved" /\ ops'[o].pc = "resolved")
         => \A k \in Kinds : ~Live(docs'[k][ops[o].id])]_vars

\* A deleteCard that is running.
Deleting(o) == ops[o].op = "delete" /\ InFlight(o)

UpdateStep(o) == ops[o].op = "update" /\ ops'[o] # ops[o]

C16_EqualUpdateWritesNothing ==
  (result.call = "update" /\ result.status = "ok" /\ result.same)
    => result.wrote = {}

\* C17 as amended: a card created by a putCard whose argument gives no
\* progress level other than 0 and no reviewed date is returned with level
\* 0 and reviewed null, and a following getCard returns the same.
C17_DefaultProgress ==
  (result.call = "create" /\ result.plain)
    => /\ result.entity.progress = [level |-> 0, reviewed |-> Null]
       /\ getCard(result.id).status = "ok"
       /\ getCard(result.id).entity.progress = [level |-> 0, reviewed |-> Null]

\* A card has been created with a question and without progress.
C17_Witness ==
  /\ result.call = "create" /\ result.plain
  /\ result.entity.question = "q"
  /\ getCard(result.id).status = "ok"

\* C17: every card created by putCard is returned with level 0 and
\* reviewed null, and a following getCard returns the same.
C17_AlwaysLevelZero ==
  result.call = "create"
    => /\ result.entity.progress = [level |-> 0, reviewed |-> Null]
       /\ getCard(result.id).status = "ok"
       /\ getCard(result.id).entity.progress = [level |-> 0, reviewed |-> Null]

\* The cards getCard finds.
LiveEntities == {n \in 1..Len(issued) : getCard(n).status = "ok"}

Listed(listing) == {listing[a] : a \in 1..Len(listing)}

\* The listing has no card twice, and the ids descend strictly.
Descends(listing) ==
  \A a \in 1..Len(listing), b \in 1..Len(listing) :
    a < b => StrLess(issued[listing[b]], issued[listing[a]])

\* Of two cards of the listing the one created later comes first.
LaterFirst(listing) ==
  \A a \in 1..Len(listing), b \in 1..Len(listing) :
    a < b => listing[a] > listing[b]

\* C18 as amended: getCards with the default ordering returns exactly the
\* cards that are not deleted, in strictly descending order of id; while
\* the timestamps of the ids have 7 or 8 base-36 digits (26 January 2016
\* to 2105), of two cards created one after the other the later one comes
\* first.
C18_ListingDescends ==
  LET listing == getCards("", NoLimit) IN
    /\ Listed(listing) = LiveEntities
    /\ Descends(listing)
    /\ inRange => LaterFirst(listing)

\* Two cards created in the same millisecond are both listed.
C18_Witness ==
  /\ inRange /\ bumped
  /\ Len(getCards("", NoLimit)) = 2
  /\ result.call = "create"

\* C18: getCards with the default ordering returns exactly the cards that
\* are not deleted, in strictly descending order of id, and of two cards
\* created one after the other the later one comes first.
C18_LaterCreatedFirst ==
  LET listing == getCards("", NoLimit) IN
    /\ Listed(listing) = LiveEntities
    /\ Descends(listing)
    /\ LaterFirst(listing)

\* The first `limit` of a listing.
UpTo(listing, limit) ==
  IF limit.has THEN SubSeq(listing, 1, Min(limit.v, Len(listing))) ELSE listing

\* C19 as amended: getCards with type 'new' returns, in descending order
\* of id and up to the limit, exactly the cards not deleted whose progress
\* record has no reviewed time, whatever their level: a card reviewed and
\* back at level 0 is not returned, a card never reviewed with a level
\* above 0 is.
C19_NewIsNeverReviewed ==
  \A limit \in Limits :
    LET listing == getCards("new", limit)
        never == {n \in LiveEntities : records[n].progress.reviewed = Null}
    IN /\ Descends(listing)
       /\ listing = UpTo(Ordered(never), limit)
       /\ \A n \in Listed(listing) : getCard(n).entity.progress.reviewed = Null

\* A card reviewed and at level 0 is not listed as new, and a card never
\* reviewed at a level above 0 is.
C19_Witness ==
  \E n \in LiveEntities, m \in LiveEntities :
    /\ records[n].progress.level = 0 /\ records[n].progress.reviewed # Null
    /\ n \notin Listed(getCards("new", NoLimit))
    /\ records[m].progress.level > 0
    /\ m \in Listed(getCards("new", NoLimit))

\* C19: getCards with type 'new' returns exactly the cards not deleted
\* whose level is 0, reviewed or not, and no card whose level is above 0.
C19_NewIsLevelZero ==
  Listed(getCards("new", NoLimit))
    = {n \in LiveEntities : records[n].progress.level = 0}

\* Key a sorts above key b: Number.MAX_VALUE above every finite double.
Above(a, b) == a.kind = "max" /\ b.kind = "finite"

ScoreOf(n) == getOverdueness(records[n].progress)

\* C20 as amended: a progress record with level 0 and a reviewed time has
\* the score Number.MAX_VALUE, above the score of every record with a
\* level above 0 whose score is finite (at most 315,458 days overdue); a
\* record with level 0 and no reviewed time has no score.
C20_ReviewedLevelZeroFirst ==
  \A n \in LiveEntities :
    records[n].progress.level = 0
      => IF records[n].progress.reviewed = Null
         THEN ScoreOf(n) = NoScore
         ELSE \A m \in LiveEntities :
                (records[m].progress.level > 0 /\ ScoreOf(m).kind = "finite")
                  => Above(ScoreOf(n), ScoreOf(m))

\* A card of level 0 with a reviewed time, and an overdue card of a level
\* above 0 with a finite score.
C20_Witness ==
  \E n \in LiveEntities, m \in LiveEntities :
    /\ records[n].progress.level = 0 /\ records[n].progress.reviewed # Null
    /\ records[m].progress.level > 0 /\ ScoreOf(m).kind = "finite"
    /\ ScoreOf(m).daysOverdue > 0

\* C20: every progress record with level 0, with or without a reviewed
\* time, has a score, and it is above the score of every record with a
\* level above 0.
C20_LevelZeroFirst ==
  \A n \in LiveEntities :
    records[n].progress.level = 0
      => /\ ScoreOf(n) # NoScore
         /\ \A m \in LiveEntities :
              (records[m].progress.level > 0 /\ ScoreOf(m) # NoScore)
                => Above(ScoreOf(n), ScoreOf(m))

\* Finite key a is greater than finite key b. Each key is linearComponent
\* + expComponent; daysOverdue / level is compared exactly, Math.exp is
\* taken to be increasing, and the sum is greater when neither component
\* is smaller and one is greater. Levels are above 0.
Greater(a, b) ==
  /\ a.kind = "finite" /\ b.kind = "finite"
  /\ a.daysOverdue * b.level >= b.daysOverdue * a.level
  /\ a.daysOverdue >= b.daysOverdue
  /\ \/ a.daysOverdue * b.level > b.daysOverdue * a.level
     \/ a.daysOverdue > b.daysOverdue

\* endkey: 0 of the overdue listing: the key is at least 0. Both
\* components of a finite key have the sign of daysOverdue.
Overdue(score) ==
  score.kind = "max" \/ (score.kind = "finite" /\ score.daysOverdue >= 0)

\* Two cards of the same level above 0, reviewed at different times.
SameLevel(n, m) ==
  /\ records[n].progress.level > 0
  /\ records[n].progress.level = records[m].progress.level
  /\ ~records[n].progress.reviewed.null /\ ~records[m].progress.reviewed.null
  /\ records[n].progress.reviewed.t < records[m].progress.reviewed.t

\* C21 as amended: of two progress records with the same level above 0
\* whose scores are finite (at most 315,458 days overdue), the one reviewed
\* earlier has the greater score, and is in the overdue listing whenever
\* the other is.
C21_EarlierReviewedScoresHigher ==
  \A n \in LiveEntities, m \in LiveEntities :
    (SameLevel(n, m) /\ ScoreOf(n).kind = "finite" /\ ScoreOf(m).kind = "finite")
      => /\ Greater(ScoreOf(n), ScoreOf(m))
         /\ Overdue(ScoreOf(m)) => Overdue(ScoreOf(n))

\* Two cards of level 1, one reviewed a day before the other, the later
\* one just due.
C21_Witness ==
  \E n \in LiveEntities, m \in LiveEntities :
    /\ SameLevel(n, m)
    /\ ScoreOf(m).kind = "finite" /\ ScoreOf(m).daysOverdue = 0
    /\ ScoreOf(n).kind = "finite"

\* C21: of two progress records with the same level above 0, the one
\* reviewed earlier has the greater score, however long overdue.
C21_ScoreStrictlyIncreasing ==
  \A n \in LiveEntities, m \in LiveEntities :
    SameLevel(n, m) => Greater(ScoreOf(n), ScoreOf(m))

\* The setReviewTime invocations made, and the last of them.
TimeCalled == {c \in TimeCallIds : timeCalls[c].pc # "unused"}
LastTimeCall(c) == c \in TimeCalled /\ \A d \in TimeCalled : d <= c

\* C22: once a setReviewTime has completed, the overdueness view scores
\* with the review time of that call or of a call made after it, never of
\* a call made before it; once all have completed, with the review time of
\* the last call.
C22_ViewFollowsReviewTime ==
  /\ \A c \in TimeCallIds :
       timeCalls[c].pc = "done"
         => \E d \in TimeCalled : d >= c /\ viewTime = timeCalls[d].t
  /\ (\A c \in TimeCalled : timeCalls[c].pc = "done")
       => \A c \in TimeCallIds : LastTimeCall(c) => viewTime = timeCalls[c].t

\* Two overlapping calls with different times have completed, the first
\* after a 409.
C22_Witness ==
  /\ timeCalls[1].pc = "done" /\ timeCalls[2].pc = "done"
  /\ timeCalls[1].t # timeCalls[2].t
  /\ timeCalls[1].map = timeCalls[2].t
  /\ timeCalls[3].pc = "unused"

\* The review documents there are, deleted or not.
ExistingReviews == {i \in ReviewIds : reviewDocs[i].rev > 0}

\* C23: getReview goes by the review document with the greatest id of
\* all, deleted or not: it returns its content if it is live, and null if
\* there is no review document or that one is deleted.
C23_GreatestIdentifierDecides ==
  reviewResult.call = "getReview"
    => IF ExistingReviews = {} THEN reviewResult.null
       ELSE LET g == CHOOSE i \in ExistingReviews : \A j \in ExistingReviews : j <= i
            IN IF reviewDocs[g].live
               THEN /\ ~reviewResult.null
                    /\ reviewResult.review = parseReview(reviewDocs[g].content)
               ELSE reviewResult.null

\* C25: when deleteReview returns, no review document that was live when
\* it was called is live, and with no write in the meantime getReview
\* returns null.
C25_NoneLiveWhenDeleteReturns ==
  reviewResult.call = "deleteReview"
    => /\ \A i \in deletion.existed : ~reviewDocs[i].live
       /\ ~deletion.wrote => ~GetReviewRow.found

\* C24: with putReview calls one after the other and nothing else writing,
\* each putReview leaves exactly one live review document, holding the
\* content put; after the first it is the same document at its next
\* revision; a getReview that follows returns the content put.
C24_PutKeepsOneReview ==
  [][/\ (reviewResult'.call = "putReview" /\ reviewDocs' # reviewDocs)
          => /\ Cardinality(LiveReviews') = 1
             /\ \A i \in LiveReviews' :
                  parseReview(reviewDocs'[i].content) = reviewResult'.review
             /\ LiveReviews # {}
                  => /\ LiveReviews' = LiveReviews
                     /\ \A i \in LiveReviews : reviewDocs'[i].rev = reviewDocs[i].rev + 1
     /\ (reviewResult'.call = "getReview" /\ reviewResult.call = "putReview")
          => /\ ~reviewResult'.null
             /\ reviewResult'.review = reviewResult.review]_vars

\* getReview has returned the content of a second putReview.
C24_Witness ==
  /\ reviewResult.call = "getReview"
  /\ ~reviewResult.null
  /\ reviewResult.review.completed = 2
  /\ reviewResult.review.failedCardsLevel1 # <<>>
  /\ \E i \in ReviewIds : reviewDocs[i].rev = 2 /\ LiveReviews = {i}

\* The revisions a document has before its conflicts are resolved.
ReviewRevisions(i) == {reviewDocs[i].content} \cup reviewDocs[i].conflicts
NoteRevisions == {noteDoc.content} \cup noteDoc.conflicts

C27_OneRevisionWhole ==
  [][/\ reviewResult'.call = "onSyncReviewChange"
          => \A i \in ReviewIds :
               reviewDocs'[i] # reviewDocs[i]
                 => /\ reviewDocs'[i].content \in ReviewRevisions(i)
                    /\ reviewDocs'[i].live
                    /\ reviewDocs'[i].conflicts = {}
     /\ reviewResult'.call = "onSyncChange"
          => /\ noteDoc'.content \in NoteRevisions
             /\ noteDoc'.live
             /\ noteDoc'.conflicts = {}]_vars

\* The conflicts of a note have been resolved after those of the review.
C27_Witness ==
  /\ reviewResult.call = "onSyncChange"
  /\ noteDoc.live /\ noteDoc.conflicts = {}
  /\ noteDoc.content.created < noteDoc.content.modified
  /\ reviewDocs[1].rev = 2 /\ reviewDocs[1].live /\ reviewDocs[1].conflicts = {}

\* C28: when the two conflicting revisions of a note differ in created,
\* the note resolver keeps the one created later.
C28_LaterCreatedKept ==
  [][reviewResult'.call = "onSyncChange"
       => \A other \in noteDoc.conflicts :
            (noteDoc.conflicts = {other} /\ other.created # noteDoc.content.created)
              => noteDoc'.content.created >= other.created
                 /\ noteDoc'.content.created >= noteDoc.content.created]_vars

\* C29: no document whose id starts with "_design/" is ever pushed, every
\* other local document can be pushed, and every remote document can be
\* pulled.
C29_DesignDocumentsStayLocal ==
  /\ \A id \in replica.pushed : ~StartsWith(id, <<"_design/">>)
  /\ \A id \in replica.local :
       ~StartsWith(id, <<"_design/">>) => ENABLED push(id)
  /\ \A id \in replica.remote : ENABLED pull(id)

\* Documents whose ids only resemble a design document's have been pushed,
\* a design document of the remote has been pulled, and the local design
\* documents have not reached the remote.
C29_Witness ==
  /\ <<"_design">> \in replica.pushed
  /\ <<"card-", "_design/">> \in replica.pushed
  /\ <<"_design/">> \in replica.pulled
  /\ <<"_design/", "cards">> \in replica.local \ replica.remote

\* The listener of a card change that is not a deletion continues after
\* its db.get of the progress document.
CardResumes(h) ==
  /\ h.pc = "resume" /\ h.change.kind = "card"
  /\ handlers' = handlers \ {h}

\* C30: when a card change that is not a deletion is handled and the
\* progress document was never written or has not arrived, no 'card' event
\* is emitted; when an event is emitted it carries the progress, except
\* when the progress document is deleted: then the event is emitted with
\* the card alone.
C30_NoEventWithoutProgress ==
  [][\A h \in handlers :
       CardResumes(h)
         => /\ h.other.status = "missing"
                 => (emitted' = emitted /\ returnedCards' = returnedCards)
            /\ emitted' # emitted
                 => /\ h.other.status \in {"ok", "deleted"}
                    /\ returnedCards'[h.change.id].progressRev = h.other.rev
                    /\ h.other.status = "ok" <=> h.other.rev > 0]_vars

\* An event for a revision of a card that was not a deletion has been
\* emitted without progress: the card has been deleted since.
C30_Witness ==
  \E i \in Ids :
    /\ returnedCards[i].defined
    /\ returnedCards[i].progressRev = 0
    /\ docs["card"][i].deleted
    /\ returnedCards[i].cardRev < docs["card"][i].rev
    /\ emitted > 0

\* C30 as stated: no event whenever the progress document is not found.
C30_NoEventWhenNotFound ==
  [][\A h \in handlers :
       (CardResumes(h) /\ h.other.status # "ok")
         => (emitted' = emitted /\ returnedCards' = returnedCards)]_vars

\* The last invocation is a deleteCard, made with the feed listened to.
Deleted(o) == LastOp(o) /\ ops[o].op = "delete" /\ ops[o].watched

\* C31: a deleteCard of a live entity causes one 'card' event with deleted
\* set, never two, and the listener of a progress change that finds the
\* card deleted emits nothing.
C31_OneDeletedEvent ==
  /\ [](\A o \in OpIds :
          Deleted(o)
            => /\ deletedEmitted <= 1
               /\ (ops[o].pc = "resolved" /\ feed = <<>> /\ handlers = {})
                    => deletedEmitted = 1)
  /\ [][\A h \in handlers :
          (/\ h.pc = "resume" /\ h.change.kind = "progress"
           /\ handlers' = handlers \ {h}
           /\ h.other.status = "deleted")
            => (emitted' = emitted /\ returnedCards' = returnedCards)]_vars

\* A deleteCard has returned and all changes are handled, a progress change
\* of an earlier update among them, handled after the card was deleted.
C31_Witness ==
  \E o \in OpIds :
    /\ Deleted(o) /\ ops[o].pc = "resolved"
    /\ feed = <<>> /\ handlers = {}
    /\ deletedEmitted = 1 /\ emitted = 1
    /\ docs["progress"][1].rev = 3
    /\ returnedCards[1].progressRev = 0

CardPutSettles(o) ==
  /\ ops[o].op = "create" /\ ops[o].pc = "put" /\ ops[o].kind = "card"
  /\ ops'[o] # ops[o]

\* C33: the card put of a create that meets a live card with its id
\* changes no document, and the create goes on to put the card under
\* another id; the put that succeeds is under an id no live card had.
C33_ConflictLeavesCardAlone ==
  [][\A o \in OpIds :
       CardPutSettles(o)
         => IF Live(docs["card"][ops[o].id])
            THEN /\ docs' = docs
                 /\ ops'[o].pc = "put" /\ ops'[o].kind = "card"
                 /\ ops'[o].id # ops[o].id
            ELSE /\ ops'[o].id = ops[o].id /\ ops'[o].kind = "progress"
                 /\ Live(docs'["card"][ops[o].id])
                 /\ \A k \in Kinds, i \in Ids :
                      (k # "card" \/ i # ops[o].id) => docs'[k][i] = docs[k][i]]_vars

\* Two creates have returned, one of them after a conflict, and their two
\* cards are live at their first revisions.
C33_Witness ==
  \E o, p \in OpIds :
    /\ ops[o].op = "create" /\ ops[o].pc = "resolved" /\ ops[o].retried
    /\ ops[p].op = "create" /\ ops[p].pc = "resolved" /\ ~ops[p].retried
    /\ ops[o].id # ops[p].id
    /\ \A i \in {ops[o].id, ops[p].id} :
         Live(docs["card"][i]) /\ docs["card"][i].rev = 1

\* The updates that have returned, and the value a field has after them:
\* the value the update naming it gave, or else the value it had.
Returned == {u \in Writers : fieldOps[u].pc = "done"}
BothReturned == Returned = Writers /\ \A u \in Writers : Names(fieldOps[u]) # {}

Expected(f) ==
  IF \E u \in Writers : f \in Names(fieldOps[u])
  THEN LET u == CHOOSE w \in Writers : f \in Names(fieldOps[w])
       IN IF f \in CardFields THEN fieldOps[u].card[f] ELSE fieldOps[u].progress[f]
  ELSE "old"

FieldsMerged ==
  /\ fieldDocs.card.question = Expected("question")
  /\ fieldDocs.card.answer = Expected("answer")
  /\ fieldDocs.progress.level = Expected("level")
  /\ fieldDocs.progress.reviewed = Expected("reviewed")

\* C34 as stated: after two updates naming disjoint fields have returned,
\* the documents have both updates' values and every other field, the
\* modification time included, has the value it had.
C34_EveryOtherFieldKept ==
  BothReturned => FieldsMerged /\ fieldDocs.card.modified = 0

\* C34: after two updates of one entity naming disjoint fields have
\* returned, with or without a revision, the Card and Progress documents
\* have the values of both updates and every field named by neither has
\* the value it had, except the card's modification time, which a call
\* that wrote the card has set to the time of its write.
C34_DisjointUpdatesMerge ==
  /\ [](BothReturned => FieldsMerged)
  /\ [](fieldDocs.card.modified <= fieldDocs.now)
  /\ []((\A u \in Writers : CardKeys(fieldOps[u]) = {}) => fieldDocs.card.modified = 0)
  /\ [][\A u \in Writers : UpdateCardPut(u) /\ fieldOps'[u].wrote /\ fieldOps[u].pc = "cardPut"
          /\ fieldOps'[u].pc = "progressGet"
          => fieldDocs'.card.modified = fieldOps[u].doc.modified]_vars

\* Both updates overlapped, one was refused a write and started over,
\* and the documents have the fields of both.
C34_Witness ==
  /\ BothReturned
  /\ fieldDocs.card.rev = 3 /\ fieldDocs.progress.rev = 3
  /\ fieldDocs.card.question = "new" /\ fieldDocs.card.answer = "new"
  /\ fieldDocs.progress.level = "new" /\ fieldDocs.progress.reviewed = "new"
  /\ \E u \in Writers : fieldOps[u].rev

\* An update that has put a revision of the card document: its upsert of
\* the card had keys to write and is over.
WroteCard(o) ==
  ops[o].op = "update" /\ ops[o].kind = "progress" /\ ops[o].cardKeys

\* C35: an update that fails with NotFound has written no revision of
\* either document.
C35_FailedUpdateWroteNothing ==
  \A o \in OpIds :
    ops[o].op = "update" /\ ops[o].pc = "rejected" /\ ops[o].error = "not_found"
      => ~WroteCard(o)

\* A later call has replaced the target of call c: it has run past
\* `await this.initDone`, where this.remoteDb is assigned.
Superseded(c) ==
  \E d \in (c + 1)..MaxCalls :
    /\ calls[d].pc \notin {"unused", "awaitInit"}
    /\ ~(calls[d].pc = "rejected" /\ calls[d].error = "bad_request")

\* C36: a call whose info() request fails after a later call has replaced
\* the target returns without an onError and leaves the remote of the later
\* call alone; a call that was not superseded clears the remote, reports
\* the error through onError and rejects.
C36_SupersededFailureIsSilent ==
  [][\A c \in CallIds :
       LocalInfoFail(c) \/ RemoteInfoFail(c)
         => IF Superseded(c)
            THEN /\ calls'[c].pc = "resolved"
                 /\ immediates' = immediates
                 /\ remoteDb' = remoteDb
            ELSE /\ calls'[c].pc = "rejected"
                 /\ ~remoteDb'.defined
                 /\ HasCallback(calls[c].options, "onError")
                      => immediates' = Append(immediates, [call |-> c, err |-> "info failed"])]_vars

\* Revision r of a document is not older than revision q, where 0 stands
\* for no revision.
NotOlder(r, q) == r = 0 \/ q = 0 \/ r >= q

\* C37: a 'card' event of an entity is never built from an older revision
\* of the card or of the progress document than the event emitted before
\* it for that entity.
C37_EventsFollowRevisions ==
  [][\A i \in Ids :
       emitted' = emitted + 1 /\ returnedCards[i].defined
         => /\ NotOlder(returnedCards'[i].cardRev, returnedCards[i].cardRev)
            /\ NotOlder(returnedCards'[i].progressRev, returnedCards[i].progressRev)]_vars

\* The largest whole number of days overdue for which the key of a record
\* of a level above 0 is at most Number.MAX_SAFE_INTEGER.
MaxSafeDays == 16327

\* The key range of the overdue query, descending: from startkey
\* (Number.MAX_SAFE_INTEGER with skipFailedCards, else the top) down to
\* endkey 0. A key that is no finite double collates as null, below 0.
InRange(score, skipFailedCards) ==
  CASE score.kind = "max" -> ~skipFailedCards
    [] score.kind = "finite" ->
         /\ score.daysOverdue >= 0
         /\ skipFailedCards => score.daysOverdue <= MaxSafeDays
    [] OTHER -> FALSE

SameKey(a, b) ==
  /\ a.kind = b.kind
  /\ a.kind = "finite"
       => a.daysOverdue = b.daysOverdue
            /\ a.daysOverdue * b.level = b.daysOverdue * a.level

\* Row n comes before row m in the descending order of the view: by key,
\* then by document id.
RowBefore(n, m) ==
  \/ Above(ScoreOf(n), ScoreOf(m))
  \/ Greater(ScoreOf(n), ScoreOf(m))
  \/ SameKey(ScoreOf(n), ScoreOf(m)) /\ Before(n, m)

RECURSIVE OrderedRows(_)
OrderedRows(rows) ==
  IF rows = {} THEN <<>>
  ELSE LET first == CHOOSE a \in rows : \A b \in rows \ {a} : RowBefore(a, b)
       IN <<first>> \o OrderedRows(rows \ {first})

\* getCards with type 'overdue': the rows of the overdueness view in the
\* key range, in descending order, at most `limit` of them, without the
\* rows whose card document is not found.
getOverdueCards(limit, skipFailedCards) ==
  LET rows == OrderedRows({n \in 1..Len(issued) :
                             InRange(ScoreOf(n), skipFailedCards)})
      limited == IF limit.has THEN SubSeq(rows, 1, Min(limit.v, Len(rows)))
                              ELSE rows
  IN SelectSeq(limited, LAMBDA n : records[n].card.live)

\* The cards of a level above 0 whose score is at least 0.
Due == {n \in LiveEntities : records[n].progress.level > 0 /\ Overdue(ScoreOf(n))}

\* C38: the overdue listing has only cards whose score is at least 0, in
\* descending order of the score and at most `limit` of them; with
\* skipFailedCards it has no card of level 0 and has every card of a
\* level above 0 with a score of at least 0 that fits the limit.
C38_OverdueListing ==
  \A limit \in Limits, skipFailedCards \in BOOLEAN :
    LET listing == getOverdueCards(limit, skipFailedCards) IN
      /\ \A a \in 1..Len(listing) : Overdue(ScoreOf(listing[a]))
      /\ \A a, b \in 1..Len(listing) :
           a < b => RowBefore(listing[a], listing[b])
      /\ limit.has => Len(listing) <= limit.v
      /\ skipFailedCards
           => /\ Listed(listing) \subseteq Due
              /\ \A n \in Due \ Listed(listing) :
                   /\ limit.has /\ Len(listing) = limit.v
                   /\ \A a \in 1..Len(listing) : RowBefore(listing[a], n)

\* A card invocation that has been made and has not returned.
Running(o) == ops[o].pc \notin {"unused", "resolved", "rejected"}

\* C39: with the continuations scheduled fairly and finitely many writes
\* by others, every putCard, deleteCard, putReview and deleteReview that
\* was called returns; and an attempt of a retry loop that is refused with
\* a 409 leaves the call running, at the start of the loop again, however
\* many attempts were refused before.
C39_CallsReturn ==
  /\ \A o \in OpIds : Running(o) ~> ~Running(o)
  /\ (reviewPut.pc \notin {"unused", "done"}) ~> (reviewPut.pc = "done")
  /\ (deletion.pc \in {"allDocs", "bulkDocs"}) ~> (deletion.pc = "done")
  /\ [][\A o \in OpIds :
          /\ ops[o].pc = "put" /\ ops[o].op = "update" /\ docs' = docs /\ ops'[o] # ops[o]
               => ops'[o].pc = "get"
          /\ ops[o].pc = "remove" /\ docs' = docs /\ ops'[o] # ops[o]
               => ops'[o].pc = "get"
          /\ ops[o].op = "create" /\ ops[o].pc = "put" /\ ops[o].kind = "card"
               /\ docs' = docs /\ ops'[o] # ops[o]
               => ops'[o].pc = "put" /\ ops'[o].kind = "card" /\ ops'[o].id # ops[o].id]_vars
  /\ [][/\ reviewPut.pc = "upsertPut" /\ reviewDocs' = reviewDocs /\ reviewPut' # reviewPut
             => reviewPut'.pc = "upsertGet"
        /\ deletion.pc = "bulkDocs" /\ deletion'.pc # "bulkDocs"
             /\ (\E i \in ReviewIds : Rejected(i))
             => deletion'.pc = "allDocs"]_vars

\* Every kind of call has returned after an attempt of its was refused.
C39_Witness ==
  /\ \E o \in OpIds : ops[o].op = "create" /\ ops[o].retried /\ ops[o].pc = "resolved"
  /\ \A o \in OpIds : ops[o].pc \in {"resolved", "rejected"}
  /\ reviewPut.pc = "done"
  /\ deletion.pc = "done" /\ deletion.wrote

\* C40: the note resolver keeps the same revision whichever of two
\* conflicting revisions it is given first.
C40_ResolverSymmetric ==
  noteDoc.live
    => \A other \in noteDoc.conflicts :
         ResolveNote(other, noteDoc.content) = ResolveNote(noteDoc.content, other)

====
